---- MODULE Spec2Model ----
(***************************************************************************)
(* A model of the CSSLint engine of js/csslint/csslint.js: the Reporter,   *)
(* the embedded-directive scan (applyEmbeddedOverrides), CSSLint.verify    *)
(* and the rules whose listeners the properties below are about.           *)
(*                                                                         *)
(* Text is a sequence of one-character strings and every index is a JS     *)
(* (0-based) index, so that the index arithmetic of the source is kept     *)
(* literally.  JS values of a ruleset are written "0", "1", "2" (numbers)  *)
(* and "true", "false" (booleans); "undefined" is a missing property.      *)
(***************************************************************************)
EXTENDS Integers, Sequences, FiniteSets, TLC

\* ------------------------------------------------------------------ bounds
MaxTokens == 2       \* tokens of a text handed to verify (pipeline)
MaxScanTokens == 3   \* tokens of a text handed to verify (directive scan)
MaxMsgs == 2         \* positional messages of one run
MaxLine == 2         \* line numbers the parser reports
MaxCol == 2          \* column numbers the parser reports
MaxDepth == 1        \* nesting of blocks the parser opens

\* ------------------------------------------------------- program constants
FloatsThreshold == 10
FontFacesThreshold == 5
ImportantThreshold == 10

Undefined == "undefined"

Digits == {"0", "1", "2", "3", "4", "5", "6", "7", "8", "9"}

Min(S) == CHOOSE x \in S : \A y \in S : x <= y
Max(S) == CHOOSE x \in S : \A y \in S : x >= y

\* ------------------------------------------------------------ JS strings
\* text.charAt(i)
At(s, i) == s[i + 1]

\* does pat occur in s at index i
StartsAt(s, pat, i) ==
  /\ i >= 0
  /\ i + Len(pat) <= Len(s)
  /\ \A k \in 1..Len(pat) : s[i + k] = pat[k]

\* String.prototype.indexOf(pat, from)
indexOf(s, pat, from) ==
  LET f == IF from < 0 THEN 0 ELSE from
      hits == {i \in f..(Len(s) - Len(pat)) : StartsAt(s, pat, i)}
  IN IF hits = {} THEN -1 ELSE Min(hits)

\* String.prototype.lastIndexOf(pat, from)
lastIndexOf(s, pat, from) ==
  LET f == IF from < 0 THEN 0 ELSE from
      hits == {i \in 0..Min({f, Len(s) - Len(pat)}) : StartsAt(s, pat, i)}
  IN IF hits = {} THEN -1 ELSE Max(hits)

\* String.prototype.includes(pat)
includes(s, pat) == indexOf(s, pat, 0) >= 0

\* the letters the texts of the model are written with
LowerOf == [c \in {"C", "S", "L", "I", "N", "T", "R", "H"} |->
              CASE c = "C" -> "c" [] c = "S" -> "s" [] c = "L" -> "l"
                [] c = "I" -> "i" [] c = "N" -> "n" [] c = "T" -> "t"
                [] c = "R" -> "r" [] c = "H" -> "h"]

\* String.prototype.toLowerCase()
toLowerCase(s) ==
  [i \in 1..Len(s) |-> IF s[i] \in DOMAIN LowerOf THEN LowerOf[s[i]] ELSE s[i]]

\* the regex class \s
IsSpace(c) == c \in {" ", "\n"}

\* String.prototype.slice(i)
slice(s, i) == IF i >= Len(s) THEN <<>> ELSE SubSeq(s, i + 1, Len(s))

\* String.prototype.trim()
trim(s) ==
  LET keep == {i \in 1..Len(s) : ~IsSpace(s[i])}
  IN IF keep = {} THEN <<>> ELSE SubSeq(s, Min(keep), Max(keep))

\* String.prototype.split(sep) for a one-character separator
RECURSIVE split(_, _)
split(s, sep) ==
  LET i == indexOf(s, <<sep>>, 0)
  IN IF i < 0 THEN <<s>>
     ELSE <<SubSeq(s, 1, i)>> \o split(slice(s, i + 1), sep)

\* pair[n] || '' of the source: the n-th piece (0-based) or the empty string
PieceOrEmpty(pieces, n) == IF n < Len(pieces) THEN pieces[n + 1] ELSE <<>>

S_open == <<"/", "*">>
S_close == <<"*", "/">>
S_csslint == <<"c", "s", "s", "l", "i", "n", "t">>
S_start == <<"s", "t", "a", "r", "t">>
S_end == <<"e", "n", "d">>
S_allow == <<"a", "l", "l", "o", "w">>
S_ignore == <<"i", "g", "n", "o", "r", "e">>
S_true == <<"t", "r", "u", "e">>
S_false == <<"f", "a", "l", "s", "e">>

\* ------------------------------------------------------------- rxEmbedded
\* first index >= i of s that holds no white space (Len(s) when there is none)
SkipSpace(s, i) ==
  LET stop == {j \in i..(Len(s) - 1) : ~IsSpace(At(s, j))}
  IN IF stop = {} THEN Len(s) ELSE Min(stop)

NoMatch == [index |-> -1, body |-> <<>>, end |-> -1]

\* the match of /\/\*\s*csslint\s+((?:[^*]+|\*(?!\/))+?)\*\//i anchored at i
rxMatchAt(s, i) ==
  IF ~StartsAt(s, S_open, i) THEN NoMatch
  ELSE
    LET k == SkipSpace(s, i + 2)
        p == k + Len(S_csslint)
    IN IF ~(p <= Len(s) /\ toLowerCase(SubSeq(s, k + 1, p)) = S_csslint) THEN NoMatch
       ELSE IF ~(p < Len(s) /\ IsSpace(At(s, p))) THEN NoMatch
       ELSE
         LET q == SkipSpace(s, p)           \* \s+ is greedy ...
             e == indexOf(s, S_close, q)    \* ... and the group stops at the first */
         IN IF e < 0 THEN NoMatch
            ELSE IF e > q THEN [index |-> i, body |-> SubSeq(s, q + 1, e), end |-> e + 2]
            \* ... but gives one space back when the group would be empty
            ELSE IF q - 1 >= p + 1
                 THEN [index |-> i, body |-> SubSeq(s, q, e), end |-> e + 2]
                 ELSE NoMatch

\* rxEmbedded.exec(text) with the g flag, searching from lastIndex
rxExec(s, lastIndex) ==
  LET hits == {i \in lastIndex..(Len(s) - 1) : rxMatchAt(s, i).index >= 0}
  IN IF lastIndex > Len(s) \/ hits = {} THEN NoMatch ELSE rxMatchAt(s, Min(hits))

\* ------------------------------------------------------------- the ruleset
\* A ruleset object: its own properties in insertion order.
RsKeys(rs) == {rs[i].id : i \in 1..Len(rs)}

RsGet(rs, id) ==
  IF id \in RsKeys(rs)
  THEN rs[CHOOSE i \in 1..Len(rs) : rs[i].id = id].level
  ELSE Undefined

\* ruleset[id] = level
RsSet(rs, id, level) ==
  IF id \in RsKeys(rs)
  THEN [i \in 1..Len(rs) |-> IF rs[i].id = id THEN [id |-> id, level |-> level] ELSE rs[i]]
  ELSE Append(rs, [id |-> id, level |-> level])

EBMEDDED_RULE_VALUE_MAP(value) ==
  CASE value = S_true -> "2"
    [] value = <<"2">> -> "2"
    [] value = <<>> -> "1"
    [] value = <<"1">> -> "1"
    [] value = S_false -> "0"
    [] value = <<"0">> -> "0"
    [] OTHER -> Undefined

\* ------------------------------------------------- applyEmbeddedOverrides
\* CountLines with an if in place of the inner while
CountLinesOnce(text, eol, lineno, index) ==
  IF eol <= index
  THEN LET nl == indexOf(text, <<"\n">>, eol + 1)
       IN [eol |-> IF nl < 0 THEN Len(text) ELSE nl, lineno |-> lineno + 1]
  ELSE [eol |-> eol, lineno |-> lineno]

\* the inner while loop: the lines between the previous and the current match
RECURSIVE CountLines(_, _, _, _)
CountLines(text, eol, lineno, index) ==
  IF eol <= index
  THEN LET nl == indexOf(text, <<"\n">>, eol + 1)
       IN CountLines(text, IF nl < 0 THEN Len(text) ELSE nl, lineno + 1, index)
  ELSE [eol |-> eol, lineno |-> lineno]

\* case 'allow': the set of trimmed names of the list
AllowRuleset(list) ==
  LET parts == split(list, ",")
  IN {trim(parts[n]) : n \in 1..Len(parts)}

\* default: every rule[:level] piece of the list, in order
RECURSIVE DefaultForm(_, _)
DefaultForm(ruleset, parts) ==
  IF parts = <<>> THEN ruleset
  ELSE
    LET pair == split(Head(parts), ":")
        property == PieceOrEmpty(pair, 0)
        value == PieceOrEmpty(pair, 1)
        mapped == EBMEDDED_RULE_VALUE_MAP(trim(value))
    IN DefaultForm(RsSet(ruleset, trim(property), IF mapped = Undefined THEN "1" ELSE mapped),
                   Tail(parts))

\* the list a directive hands to its split(','): ovr.slice(i)
DirectiveList(ovr) ==
  LET cmd == split(ovr, ":")[1]
  IN slice(ovr, Len(cmd) + 1)

\* IgnoreStart with the start moved by every ignore:start
IgnoreStartMoved(ignoreStart, lineno) == lineno

\* ignoreStart = ignoreStart || lineno (0 is null)
IgnoreStart(ignoreStart, lineno) == IF ignoreStart # 0 THEN ignoreStart ELSE lineno

\* IgnoreEnd without the test of ignoreStart
IgnoreEndAlways(st, lineno) ==
  [st EXCEPT !.ignore = Append(st.ignore, <<st.ignoreStart, lineno>>), !.ignoreStart = 0]

\* IgnoreEnd that leaves ignoreStart set after the push
IgnoreEndKeepsStart(st, lineno) ==
  IF st.ignoreStart # 0 /\ lineno # 0
  THEN [st EXCEPT !.ignore = Append(st.ignore, <<st.ignoreStart, lineno>>)]
  ELSE st

\* ignoreEnd = lineno; if (ignoreStart && ignoreEnd) { ignore.push(...); both = null }
IgnoreEnd(st, lineno) ==
  IF st.ignoreStart # 0 /\ lineno # 0
  THEN [st EXCEPT !.ignore = Append(st.ignore, <<st.ignoreStart, lineno>>), !.ignoreStart = 0]
  ELSE st

\* the body of the outer while loop for one match m; ignoreStart = 0 is null
OneDirective(text, st, m) ==
  LET ln == CountLines(text, st.eol, st.lineno, m.index)
      lineno == ln.lineno
      ovr == toLowerCase(m.body)
      cmd == split(ovr, ":")[1]
      list == DirectiveList(ovr)
      base == [st EXCEPT !.eol = ln.eol, !.lineno = lineno, !.lastIndex = m.end]
  IN CASE trim(cmd) = S_allow ->
            [base EXCEPT !.allow = [l \in (DOMAIN st.allow) \cup {lineno} |->
                                      IF l = lineno THEN AllowRuleset(list) ELSE st.allow[l]]]
       [] trim(cmd) = S_ignore ->
            IF includes(ovr, S_start)
            THEN [base EXCEPT !.ignoreStart = IgnoreStart(st.ignoreStart, lineno)]
            ELSE IF includes(ovr, S_end)
            THEN IgnoreEnd(base, lineno)
            ELSE base
       [] OTHER ->
            [base EXCEPT !.ruleset = DefaultForm(st.ruleset, split(list, ","))]

RECURSIVE ScanLoop(_, _)
ScanLoop(text, st) ==
  LET m == rxExec(text, st.lastIndex)
  IN IF m.index < 0
     THEN \* Close remaining ignore block, if any
          IF st.ignoreStart # 0
          THEN [st EXCEPT !.ignore = Append(st.ignore, <<st.ignoreStart, st.lineno>>)]
          ELSE st
     ELSE ScanLoop(text, OneDirective(text, st, m))

\* applyEmbeddedOverrides(text, ruleset, allow, ignore) with rxEmbedded.lastIndex = emi
applyEmbeddedOverrides(text, ruleset, emi) ==
  LET st == ScanLoop(text, [ruleset |-> ruleset, allow |-> <<>>, ignore |-> <<>>,
                            ignoreStart |-> 0, lineno |-> 0, eol |-> -1, lastIndex |-> emi])
  IN [ruleset |-> st.ruleset, allow |-> st.allow, ignore |-> st.ignore]

\* the probe of verify: where the scan starts, < 0 when it is skipped
Probe(text) ==
  LET a == indexOf(text, S_open, 0) + 1
      b == indexOf(text, S_csslint, IF a # 0 THEN a ELSE Len(text))
  IN lastIndexOf(text, S_open, b + 1)


\* ---------------------------------------------------------- the registry
ID_box_model == <<"b", "o", "x", "-", "m", "o", "d", "e", "l">>
ID_duplicate_properties ==
  <<"d", "u", "p", "l", "i", "c", "a", "t", "e", "-", "p", "r", "o", "p", "e", "r", "t", "i", "e", "s">>
ID_empty_rules == <<"e", "m", "p", "t", "y", "-", "r", "u", "l", "e", "s">>
ID_errors == <<"e", "r", "r", "o", "r", "s">>
ID_floats == <<"f", "l", "o", "a", "t", "s">>
ID_font_faces == <<"f", "o", "n", "t", "-", "f", "a", "c", "e", "s">>
ID_globals_in_document ==
  <<"g", "l", "o", "b", "a", "l", "s", "-", "i", "n", "-", "d", "o", "c", "u", "m", "e", "n", "t">>
ID_ids == <<"i", "d", "s">>
ID_import == <<"i", "m", "p", "o", "r", "t">>
ID_important == <<"i", "m", "p", "o", "r", "t", "a", "n", "t">>
ID_order_alphabetical ==
  <<"o", "r", "d", "e", "r", "-", "a", "l", "p", "h", "a", "b", "e", "t", "i", "c", "a", "l">>
ID_outline_none == <<"o", "u", "t", "l", "i", "n", "e", "-", "n", "o", "n", "e">>
ID_shorthand == <<"s", "h", "o", "r", "t", "h", "a", "n", "d">>
ID_text_indent == <<"t", "e", "x", "t", "-", "i", "n", "d", "e", "n", "t">>
ID_unique_headings ==
  <<"u", "n", "i", "q", "u", "e", "-", "h", "e", "a", "d", "i", "n", "g", "s">>

\* the rules of CSSLint.addRule this model registers, in registration order
rules ==
  <<ID_box_model, ID_duplicate_properties, ID_empty_rules, ID_errors, ID_floats,
    ID_font_faces, ID_globals_in_document, ID_ids, ID_import, ID_important,
    ID_order_alphabetical, ID_outline_none, ID_shorthand, ID_text_indent, ID_unique_headings>>

RuleIds == {rules[i] : i \in 1..Len(rules)}

\* by default, everything is a warning
getRuleSet == [i \in 1..Len(rules) |-> [id |-> rules[i], level |-> "1"]]

\* the JS truth value of a level
Truthy(level) == level \notin {"0", "false", Undefined}

\* ------------------------------------------------------------ the Reporter
\* A position argument: null, or an object whose line and col may be missing
\* (0 stands for a missing property; the parser's lines and columns start at 1).
Absent == 0
NullPos == [isNull |-> TRUE, line |-> Absent, col |-> Absent]
Pos(line, col) == [isNull |-> FALSE, line |-> line, col |-> col]

NoRule == <<>>

\* this.lines of the Reporter that verify constructs
ReporterLines == <<>>

\* this.lines[line - 1]
Evidence(line) ==
  IF line - 1 \in 0..(Len(ReporterLines) - 1) THEN ReporterLines[line] ELSE Undefined

\* A message text: a text a rule builds, named by `text` with the number `n` it
\* holds, and for the message of a parser error the characters of that message
Text(t, n) == [text |-> t, n |-> n, grammar |-> <<>>]

\* {line = 1, col = 1}
DefaultTo1(x) == IF x = Absent THEN 1 ELSE x

\* InIgnore with the end of a range left out
InIgnoreOpenEnd(ignoreRanges, line) ==
  \E i \in 1..Len(ignoreRanges) : ignoreRanges[i][1] <= line /\ line < ignoreRanges[i][2]

\* range[0] <= line && line <= range[1] for some range of this.ignore
InIgnore(ignoreRanges, line) ==
  \E i \in 1..Len(ignoreRanges) : ignoreRanges[i][1] <= line /\ line <= ignoreRanges[i][2]

\* InAllow without the test of the rule
InAllowAnyRule(allowTable, line, id) == line \in DOMAIN allowTable

\* line in this.allow && rule.id in this.allow[line]
InAllow(allowTable, line, id) ==
  line \in DOMAIN allowTable /\ id \in allowTable[line]

\* ReportType with every truthy level an error
ReportTypeTruthy(rs, id) ==
  IF RsGet(rs, id) \notin {"0", "false", Undefined} THEN "error" ELSE "warning"

\* this.ruleset[rule.id] === 2 ? 'error' : 'warning'
ReportType(rs, id) == IF RsGet(rs, id) = "2" THEN "error" ELSE "warning"

\* The state a listener works on: the Reporter's messages, the Reporter calls of
\* the event being dispatched, whether a listener threw, and the closures of the rules.
Push(st, msg, call) ==
  [st EXCEPT !.messages = Append(st.messages, msg),
             !.calls = Append(st.calls, [call EXCEPT !.pushed = Len(st.messages) + 1])]

Call(op, id, pos) ==
  [op |-> op, rule |-> id, isNull |-> pos.isNull,
   line |-> DefaultTo1(pos.line), col |-> DefaultTo1(pos.col), pushed |-> 0, raised |-> FALSE]

\* destructuring null in the parameter list raises a TypeError
Raise(st, call) ==
  [st EXCEPT !.thrown = TRUE, !.calls = Append(st.calls, [call EXCEPT !.raised = TRUE])]

\* Reporter.error(message, {line = 1, col = 1}, rule = {})
ReporterError(st, message, pos, id) ==
  IF pos.isNull THEN Raise(st, Call("error", id, pos))
  ELSE Push(st, [type |-> "error", rollup |-> FALSE, evidence |-> Evidence(DefaultTo1(pos.line)),
                 line |-> DefaultTo1(pos.line), col |-> DefaultTo1(pos.col),
                 message |-> message, rule |-> id],
            Call("error", id, pos))

\* Reporter.report(message, {line = 1, col = 1}, rule)
ReporterReport(st, rs, allowTable, ignoreRanges, message, pos, id) ==
  IF pos.isNull THEN Raise(st, Call("report", id, pos))
  ELSE IF InAllow(allowTable, DefaultTo1(pos.line), id) \/ InIgnore(ignoreRanges, DefaultTo1(pos.line))
  THEN [st EXCEPT !.calls = Append(st.calls, Call("report", id, pos))]
  ELSE Push(st, [type |-> ReportType(rs, id), rollup |-> FALSE,
                 evidence |-> Evidence(DefaultTo1(pos.line)),
                 line |-> DefaultTo1(pos.line), col |-> DefaultTo1(pos.col),
                 message |-> message, rule |-> id],
            Call("report", id, pos))

\* Reporter.rollupWarn(message, rule): no line, no col, no evidence
ReporterRollupWarn(st, message, id) ==
  Push(st, [type |-> "warning", rollup |-> TRUE, evidence |-> Undefined,
            line |-> Absent, col |-> Absent, message |-> message, rule |-> id],
       [op |-> "rollupWarn", rule |-> id, isNull |-> FALSE,
        line |-> Absent, col |-> Absent, pushed |-> 0, raised |-> FALSE])

\* Reporter.stat(name, value): this.stats[name] = value
ReporterStat(st, name, value) ==
  [st EXCEPT !.stats = [n \in (DOMAIN st.stats) \cup {name} |->
                          IF n = name THEN value ELSE st.stats[n]]]

\* ------------------------------------------------------------ parser events
\* An event of the parser: the properties the listeners below read.
Ev(type) ==
  [type |-> type, line |-> Absent, col |-> Absent, name |-> "", value |-> "",
   inParens |-> FALSE, important |-> FALSE, selectors |-> FALSE, focus |-> FALSE,
   empty |-> FALSE, selectorList |-> <<>>, message |-> <<>>]

\* the block categories of CSSLint.Util.registerRuleEvents
RuleEventCategories ==
  <<"container", "fontface", "keyframerule", "media", "page", "pagemargin",
    "rule", "supports", "viewport">>

StartEvents ==
  {"startcontainer", "startfontface", "startkeyframerule", "startmedia", "startpage",
   "startpagemargin", "startrule", "startsupports", "startviewport"}

EndEvents ==
  {"endcontainer", "endfontface", "endkeyframerule", "endmedia", "endpage",
   "endpagemargin", "endrule", "endsupports", "endviewport"}

\* the handlers handed to registerRuleEvents: which of {start, property, end} are given
AllHandlers == [start |-> TRUE, property |-> TRUE, end |-> TRUE]

\* registerRuleEvents with the property handler attached for every category
registerRuleEventsPerCategory(parser, handlers) ==
  LET perCategory(e) ==
        (IF handlers.start THEN <<<<"start" \o e, "start">>>> ELSE <<>>)
        \o (IF handlers.end THEN <<<<"end" \o e, "end">>>> ELSE <<>>)
        \o (IF handlers.property THEN <<<<"property", "property">>>> ELSE <<>>)
      add[n \in 0..Len(RuleEventCategories)] ==
        IF n = 0 THEN parser ELSE add[n - 1] \o perCategory(RuleEventCategories[n])
  IN add[Len(RuleEventCategories)]

\* CSSLint.Util.registerRuleEvents(parser, {start, property, end}): the listeners
\* of the parser, <<event type, handler>>, after the addListener calls
registerRuleEvents(parser, handlers) ==
  LET perCategory(e) ==
        (IF handlers.start THEN <<<<"start" \o e, "start">>>> ELSE <<>>)
        \o (IF handlers.end THEN <<<<"end" \o e, "end">>>> ELSE <<>>)
      add[n \in 0..Len(RuleEventCategories)] ==
        IF n = 0 THEN parser ELSE add[n - 1] \o perCategory(RuleEventCategories[n])
  IN add[Len(RuleEventCategories)]
     \o (IF handlers.property THEN <<<<"property", "property">>>> ELSE <<>>)

\* the listeners of a fresh parser once a rule has called registerRuleEvents
Attached ==
  [handlers \in [start : BOOLEAN, property : BOOLEAN, end : BOOLEAN] |->
     registerRuleEvents(<<>>, handlers)]

\* the handlers of a rule that run on an event, in the order they were attached
HandlersOn(handlers, type) ==
  LET on == SelectSeq(Attached[handlers], LAMBDA l : l[1] = type)
  IN [i \in 1..Len(on) |-> on[i][2]]

\* ------------------------------------------------------ CSSLint.Util.shorthands
\* rows of the table of the shorthands getter, in the order of the source:
\* [sh, pattern, ...args]; a pattern is cut at %, at the digits and at |
ShorthandRows ==
  <<[sh |-> "flex-flow", pattern |-> <<"flex-", "1">>, args |-> <<<<"direction", "wrap">>>>],
    [sh |-> "grid-area", pattern |-> <<"grid-", "1", "-", "2">>,
     args |-> <<<<"row", "column">>, <<"start", "end">>>>],
    [sh |-> "grid-column", pattern |-> <<"%", "-", "1">>, args |-> <<<<"start", "end">>>>],
    [sh |-> "grid-row", pattern |-> <<"%", "-", "1">>, args |-> <<<<"start", "end">>>>],
    [sh |-> "text-emphasis", pattern |-> <<"%", "-", "1">>, args |-> <<<<"style", "color">>>>]>>

\* replace(/x/g, word) on a pattern
Subst(pieces, ph, word) ==
  [k \in 1..Len(pieces) |-> IF pieces[k] = ph THEN word ELSE pieces[k]]

RECURSIVE Flatten(_)
Flatten(lists) == IF lists = <<>> THEN <<>> ELSE Head(lists) \o Flatten(Tail(lists))

\* args.forEach((arg, i) => res = arg.replace(/[^|]+/g, res.replace(i + 1, '$&'))):
\* every alternative of arg is replaced by the whole of res with i + 1 standing for it
RECURSIVE ExpandArgs(_, _, _)
ExpandArgs(res, args, i) ==
  IF i > Len(args) THEN res
  ELSE ExpandArgs(Flatten([a \in 1..Len(args[i]) |->
                             [r \in 1..Len(res) |-> Subst(res[r], ToString(i), args[i][a])]]),
                  args, i + 1)

RECURSIVE Join(_)
Join(pieces) == IF pieces = <<>> THEN "" ELSE Head(pieces) \o Join(Tail(pieces))

\* split('|')
RECURSIVE SplitBar(_, _)
SplitBar(pieces, cur) ==
  IF pieces = <<>> THEN <<cur>>
  ELSE IF Head(pieces) = "|" THEN <<cur>> \o SplitBar(Tail(pieces), <<>>)
  ELSE SplitBar(Tail(pieces), Append(cur, Head(pieces)))

\* shorthands[sh] of one row: res.split('|')
Longhands(row) ==
  LET res == ExpandArgs(SplitBar(Subst(row.pattern, "%", row.sh), <<>>), row.args, 1)
  IN [r \in 1..Len(res) |-> Join(res[r])]

\* CSSLint.Util.shorthands: sh -> its longhands
shorthands ==
  [sh \in {ShorthandRows[i].sh : i \in 1..Len(ShorthandRows)} |->
     Longhands(ShorthandRows[CHOOSE i \in 1..Len(ShorthandRows) : ShorthandRows[i].sh = sh])]

\* CSSLint.Util.shorthandsFor: forEach(r => shorthandsFor[r] = sh) row after row,
\* so the last row that lists a name stays
shorthandsForTable ==
  LET lists == [i \in 1..Len(ShorthandRows) |-> Longhands(ShorthandRows[i])]
      Lists(i, name) == \E k \in 1..Len(lists[i]) : lists[i][k] = name
  IN [name \in UNION {{lists[i][k] : k \in 1..Len(lists[i])} : i \in 1..Len(lists)} |->
        ShorthandRows[Max({i \in 1..Len(lists) : Lists(i, name)})].sh]

\* shorthandsFor[name]
shorthandsFor(name) ==
  IF name \in DOMAIN shorthandsForTable THEN shorthandsForTable[name] ELSE Undefined

\* ---------------------------------------------------------------- the rules
\* null, or the lastRule object of the outline-none closure
NullRule == [isNull |-> TRUE, line |-> Absent, col |-> Absent, focus |-> FALSE,
             propCount |-> 0, outline |-> FALSE]

\* CSSLint.addRule['errors']
RuleErrors(st, ev) ==
  IF ev.type = "error"
  THEN ReporterError(st, [Text("parse error", 0) EXCEPT !.grammar = ev.message],
                     Pos(ev.line, ev.col), ID_errors)
  ELSE st

\* a part of a selector: a combinator has no modifiers property, a simple
\* selector has a list of modifiers, each with a type
Combinator == [hasModifiers |-> FALSE, modifiers |-> <<>>]
Part(modifiers) == [hasModifiers |-> TRUE, modifiers |-> modifiers]

\* modifiers.reduce((sum, mod) => sum + (mod.type === 'id'), 0)
IdModifiers(part) ==
  Cardinality({i \in 1..Len(part.modifiers) : part.modifiers[i] = "id"})

\* sel.parts.reduce((sum = 0, {modifiers}) => modifiers ? <count of that part> : sum, 0):
\* a part with modifiers replaces the sum, a part without keeps it
RECURSIVE IdCount(_, _)
IdCount(parts, sum) ==
  IF parts = <<>> THEN sum
  ELSE IdCount(Tail(parts),
               IF Head(parts).hasModifiers THEN IdModifiers(Head(parts)) ELSE sum)

\* CSSLint.addRule['ids']: for (const sel of event.selectors)
RECURSIVE IdsOfSelectors(_, _, _, _, _)
IdsOfSelectors(st, rs, allowTable, ignoreRanges, sels) ==
  IF sels = <<>> \/ st.thrown THEN st
  ELSE LET sel == Head(sels)
           cnt == IdCount(sel.parts, 0)
       IN IdsOfSelectors(
            IF cnt # 0
            THEN ReporterReport(st, rs, allowTable, ignoreRanges, Text("Id in selector", cnt),
                                Pos(sel.line, sel.col), ID_ids)
            ELSE st,
            rs, allowTable, ignoreRanges, Tail(sels))

RuleIdSelectors(st, rs, allowTable, ignoreRanges, ev) ==
  IF ev.type = "startrule"
  THEN IdsOfSelectors(st, rs, allowTable, ignoreRanges, ev.selectorList)
  ELSE st

\* CSSLint.addRule['import']
RuleImport(st, rs, allowTable, ignoreRanges, ev) ==
  IF ev.type = "import"
  THEN ReporterReport(st, rs, allowTable, ignoreRanges, Text("@import", 0),
                      Pos(ev.line, ev.col), ID_import)
  ELSE st

\* CSSLint.addRule['empty-rules']: reports at event.selectors[0]
RuleEmptyRules(st, rs, allowTable, ignoreRanges, ev) ==
  IF ev.type = "endrule" /\ ev.empty
  THEN ReporterReport(st, rs, allowTable, ignoreRanges, Text("Empty rule.", 0),
                      Pos(ev.line, ev.col), ID_empty_rules)
  ELSE st

\* the lower-cased text of the names and values the parser hands over
LowText(t) == CASE t = "FLOAT" -> "float" [] t = "NONE" -> "none" [] OTHER -> t

\* CSSLint.Util.getPropName(prop): lower-cased, no vendor prefix in these texts
getPropName(name) == LowText(name)

\* TooManyFloats with the boundary left out
TooManyFloatsOver(count) == count > FloatsThreshold

\* count >= 10
TooManyFloats(count) == count >= FloatsThreshold

\* CSSLint.addRule['floats']
RuleFloats(st, ev) ==
  CASE ev.type = "property" ->
         [st EXCEPT !.floats =
            @ + (IF getPropName(ev.name) = "float" /\ LowText(ev.value) # "none" THEN 1 ELSE 0)]
    [] ev.type = "endstylesheet" ->
         LET counted == ReporterStat(st, "floats", st.floats)
         IN IF TooManyFloats(st.floats)
            THEN ReporterRollupWarn(counted, Text("Too many floats", st.floats), ID_floats)
            ELSE counted
    [] OTHER -> st

\* RuleImportant counting only the declarations whose warning was appended
RuleImportantAppended(st, rs, allowTable, ignoreRanges, ev) ==
  CASE ev.type = "property" ->
         IF ev.important
         THEN LET told == ReporterReport(st, rs, allowTable, ignoreRanges, Text("!important.", 0),
                                         Pos(ev.line, ev.col), ID_important)
              IN IF Len(told.messages) > Len(st.messages)
                 THEN [told EXCEPT !.important = @ + 1] ELSE told
         ELSE st
    [] ev.type = "endstylesheet" ->
         LET counted == ReporterStat(st, "important", st.important)
         IN IF st.important >= ImportantThreshold
            THEN ReporterRollupWarn(counted, Text("Too many !important declarations", st.important),
                                    ID_important)
            ELSE counted
    [] OTHER -> st

\* CSSLint.addRule['important']
RuleImportant(st, rs, allowTable, ignoreRanges, ev) ==
  CASE ev.type = "property" ->
         IF ev.important
         THEN ReporterReport([st EXCEPT !.important = @ + 1], rs, allowTable, ignoreRanges,
                             Text("!important.", 0), Pos(ev.line, ev.col), ID_important)
         ELSE st
    [] ev.type = "endstylesheet" ->
         LET counted == ReporterStat(st, "important", st.important)
         IN IF st.important >= ImportantThreshold
            THEN ReporterRollupWarn(counted, Text("Too many !important declarations", st.important),
                                    ID_important)
            ELSE counted
    [] OTHER -> st

\* CSSLint.addRule['font-faces']
RuleFontFaces(st, ev) ==
  CASE ev.type = "startfontface" -> [st EXCEPT !.fontFaces = @ + 1]
    [] ev.type = "endstylesheet" ->
         IF st.fontFaces > FontFacesThreshold
         THEN ReporterRollupWarn(st, Text("Too many @font-face declarations", st.fontFaces),
                                 ID_font_faces)
         ELSE st
    [] OTHER -> st

\* CSSLint.addRule['outline-none']: start, property and end of registerRuleEvents
RuleOutlineNone(st, rs, allowTable, ignoreRanges, ev) ==
  CASE ev.type \in StartEvents ->
         [st EXCEPT !.lastRule =
            IF ~ev.selectors THEN NullRule
            ELSE [isNull |-> FALSE, line |-> ev.line, col |-> ev.col, focus |-> ev.focus,
                  propCount |-> 0, outline |-> FALSE]]
    [] ev.type = "property" ->
         IF st.lastRule.isNull \/ ev.inParens THEN st
         ELSE [st EXCEPT !.lastRule.propCount = @ + 1,
                         !.lastRule.outline =
                            @ \/ (ev.name = "outline" /\ ev.value \in {"none", "0"})]
    [] ev.type \in EndEvents ->
         LET was == st.lastRule            \* {outline, selectors, propCount} = lastRule || {}
             cleared == [st EXCEPT !.lastRule = NullRule]   \* lastRule = null
             \* ... and the position handed to report is lastRule, read after that
             position == IF cleared.lastRule.isNull THEN NullPos
                         ELSE Pos(cleared.lastRule.line, cleared.lastRule.col)
         IN IF ~was.outline THEN cleared
            ELSE IF ~was.focus
            THEN ReporterReport(cleared, rs, allowTable, ignoreRanges,
                                Text("Outlines should only be modified using :focus.", 0),
                                position, ID_outline_none)
            ELSE IF was.propCount = 1
            THEN ReporterReport(cleared, rs, allowTable, ignoreRanges,
                                Text("Outlines shouldn't be hidden", 0),
                                position, ID_outline_none)
            ELSE cleared
    [] OTHER -> st

\* ---------------------------------------------- rules with a stack of scopes
\* let props: undefined or null (isNull), or an object with its own properties
NullProps == [isNull |-> TRUE, entries |-> <<>>]
EmptyProps == [isNull |-> FALSE, entries |-> <<>>]

\* stack.pop(): undefined when the stack is empty
PopProps(scope) ==
  IF scope.stack = <<>> THEN [scope EXCEPT !.props = NullProps]
  ELSE [scope EXCEPT !.props = scope.stack[Len(scope.stack)],
                     !.stack = SubSeq(scope.stack, 1, Len(scope.stack) - 1)]

\* events[name] = event: a new key goes last, a known key keeps its place
PutNamed(events, name, ev) ==
  LET at == {k \in 1..Len(events) : events[k].name = name}
      entry == [name |-> name, line |-> ev.line, col |-> ev.col]
  IN IF at = {} THEN Append(events, entry)
     ELSE [k \in 1..Len(events) |-> IF k \in at THEN entry ELSE events[k]]

\* (props[sh] || (props[sh] = {}))[name] = event
PutEvent(props, sh, name, ev) ==
  LET at == {k \in 1..Len(props.entries) : props.entries[k].sh = sh}
  IN IF at = {}
     THEN [isNull |-> FALSE,
           entries |-> Append(props.entries, [sh |-> sh, events |-> PutNamed(<<>>, name, ev)])]
     ELSE [isNull |-> FALSE,
           entries |-> [k \in 1..Len(props.entries) |->
                          IF k \in at
                          THEN [props.entries[k] EXCEPT !.events = PutNamed(@, name, ev)]
                          ELSE props.entries[k]]]

\* registerShorthandEvents with a start handler that keeps props
ShorthandStartKeeps(scope) == [scope EXCEPT !.stack = Append(@, scope.props)]

\* registerShorthandEvents: start() { stack.push(props); props = null; }
ShorthandStart(scope) == [scope EXCEPT !.stack = Append(@, scope.props), !.props = NullProps]

\* registerShorthandEvents: property(event), for a rule that hands over no
\* property callback
ShorthandProperty(scope, ev) ==
  IF scope.stack = <<>> \/ ev.inParens THEN scope
  ELSE LET name == getPropName(ev.name)
           sh == shorthandsFor(name)
       IN IF sh # Undefined
          THEN [scope EXCEPT !.props = PutEvent(scope.props, sh, name, ev)]
          ELSE scope

\* names.forEach(n => reporter.report(msg, events[n], rule)); the message names sh
RECURSIVE ReportNames(_, _, _, _, _, _)
ReportNames(st, rs, allowTable, ignoreRanges, sh, events) ==
  IF events = <<>> \/ st.thrown THEN st
  ELSE ReportNames(ReporterReport(st, rs, allowTable, ignoreRanges, Text(sh, 0),
                                  Pos(Head(events).line, Head(events).col), ID_shorthand),
                   rs, allowTable, ignoreRanges, sh, Tail(events))

\* CSSLint.addRule['shorthand']: end(event, props)
RECURSIVE ShorthandEnd(_, _, _, _, _)
ShorthandEnd(st, rs, allowTable, ignoreRanges, entries) ==
  IF entries = <<>> \/ st.thrown THEN st
  ELSE LET sh == Head(entries).sh
           events == Head(entries).events
       IN ShorthandEnd(IF Len(events) = Len(shorthands[sh])
                       THEN ReportNames(st, rs, allowTable, ignoreRanges, sh, events)
                       ELSE st,
                       rs, allowTable, ignoreRanges, Tail(entries))

\* CSSLint.addRule['shorthand'] on the listeners of registerShorthandEvents
RuleShorthand(st, rs, allowTable, ignoreRanges, ev) ==
  LET on == HandlersOn(AllHandlers, ev.type)
      scope == st.shorthand
  IN IF on = <<>> THEN st
     ELSE CASE on[1] = "start" -> [st EXCEPT !.shorthand = ShorthandStart(scope)]
            [] on[1] = "property" -> [st EXCEPT !.shorthand = ShorthandProperty(scope, ev)]
            [] on[1] = "end" ->
                 \* if (end && props) end(event, props); props = stack.pop()
                 LET told == IF ~scope.props.isNull
                             THEN ShorthandEnd(st, rs, allowTable, ignoreRanges, scope.props.entries)
                             ELSE st
                 IN [told EXCEPT !.shorthand = PopProps(scope)]

\* props[name] of the duplicate-properties and box-model closures
Has(props, name) == ~props.isNull /\ name \in DOMAIN props.entries
Put(props, name, value) ==
  [props EXCEPT !.entries = [n \in (DOMAIN props.entries) \cup {name} |->
                               IF n = name THEN value ELSE props.entries[n]]]

\* the test of duplicate-properties with the latest value of the name only
IsDuplicate(props, lastName, name, value) ==
  Has(props, name) /\ (lastName # name \/ props.entries[name] = value)

\* CSSLint.addRule['duplicate-properties']
RuleDuplicateProperties(st, rs, allowTable, ignoreRanges, ev) ==
  LET on == HandlersOn(AllHandlers, ev.type)
      scope == st.duplicateProperties
  IN IF on = <<>> THEN st
     ELSE CASE on[1] = "start" ->
                 [st EXCEPT !.duplicateProperties.stack = Append(@, scope.props),
                            !.duplicateProperties.props = EmptyProps]
            [] on[1] = "property" ->
                 IF scope.props.isNull \/ ev.inParens THEN st
                 ELSE LET name == LowText(ev.name)      \* property.text.toLowerCase()
                          dupValue == Has(scope.props, name) /\ scope.props.entries[name] = ev.value
                          told == IF IsDuplicate(scope.props, scope.lastName, name, ev.value)
                                  THEN ReporterReport(st, rs, allowTable, ignoreRanges,
                                         Text(IF dupValue THEN "Duplicate" ELSE "Ungrouped duplicate", 0),
                                         Pos(ev.line, ev.col), ID_duplicate_properties)
                                  ELSE st
                      IN [told EXCEPT !.duplicateProperties.props = Put(scope.props, name, ev.value),
                                      !.duplicateProperties.lastName = name]
            [] on[1] = "end" ->
                 [st EXCEPT !.duplicateProperties = PopProps(scope)]

\* the values of the declarations below as the parser hands them over: the
\* text, and per part its type and its number
CSSValue(value) ==
  CASE value = "100px" -> [chars |-> <<"1", "0", "0", "p", "x">>,
                           parts |-> <<[type |-> "length", number |-> 100]>>]
    [] value = "auto" -> [chars |-> <<"a", "u", "t", "o">>,
                          parts |-> <<[type |-> "identifier", number |-> 0]>>]
    [] value = "0" -> [chars |-> <<"0">>, parts |-> <<[type |-> "number", number |-> 0]>>]
    [] value = "10px" -> [chars |-> <<"1", "0", "p", "x">>,
                          parts |-> <<[type |-> "length", number |-> 10]>>]
    [] value = "0 10px" -> [chars |-> <<"0", " ", "1", "0", "p", "x">>,
                            parts |-> <<[type |-> "number", number |-> 0],
                                        [type |-> "length", number |-> 10]>>]
    [] value = "1px solid" -> [chars |-> <<"1", "p", "x", " ", "s", "o", "l", "i", "d">>,
                               parts |-> <<[type |-> "length", number |-> 1],
                                           [type |-> "identifier", number |-> 0]>>]
    [] value = "none" -> [chars |-> <<"n", "o", "n", "e">>,
                          parts |-> <<[type |-> "identifier", number |-> 0]>>]
    [] value = "-100px" -> [chars |-> <<"-", "1", "0", "0", "p", "x">>,
                            parts |-> <<[type |-> "length", number |-> -100]>>]
    [] value = "-99px" -> [chars |-> <<"-", "9", "9", "p", "x">>,
                           parts |-> <<[type |-> "length", number |-> -99]>>]
    [] value = "ltr" -> [chars |-> <<"l", "t", "r">>,
                         parts |-> <<[type |-> "identifier", number |-> 0]>>]
    [] value = "LTR" -> [chars |-> <<"L", "T", "R">>,
                         parts |-> <<[type |-> "identifier", number |-> 0]>>]
    [] value = "rtl" -> [chars |-> <<"r", "t", "l">>,
                         parts |-> <<[type |-> "identifier", number |-> 0]>>]
    [] OTHER -> [chars |-> <<"x">>, parts |-> <<[type |-> "identifier", number |-> 0]>>]

\* /^0+\D*$/.test(event.value)
IsZero(chars) ==
  \E z \in 1..Len(chars) :
    /\ \A i \in 1..z : chars[i] = "0"
    /\ \A i \in (z + 1)..Len(chars) : chars[i] \notin Digits

\* sizeProps of box-model
sizeProps ==
  [width |-> <<"border", "border-left", "border-right", "padding", "padding-left", "padding-right">>,
   height |-> <<"border", "border-bottom", "border-top", "padding", "padding-bottom", "padding-top">>]

Includes(list, x) == \E i \in 1..Len(list) : list[i] = x

\* if (prop !== 'padding' || !props[prop]) continue: is prop passed over
BoxSkips(props, prop) == prop # "padding" \/ ~Has(props, prop)

\* box-model end: for (const prop of sizeProps[size])
RECURSIVE BoxProps(_, _, _, _, _, _, _)
BoxProps(st, rs, allowTable, ignoreRanges, props, size, list) ==
  IF list = <<>> \/ st.thrown THEN st
  ELSE LET prop == Head(list)
       IN BoxProps(
            IF BoxSkips(props, prop) THEN st
            ELSE LET parts == CSSValue(props.entries[prop].value).parts
                 IN IF Len(parts) # 2 \/ parts[1].number # 0
                    THEN ReporterReport(st, rs, allowTable, ignoreRanges,
                                        Text("No box-sizing and " \o size \o " in " \o prop, 0),
                                        Pos(props.entries[prop].line, props.entries[prop].col),
                                        ID_box_model)
                    ELSE st,
            rs, allowTable, ignoreRanges, props, size, Tail(list))

\* box-model end: if (!props['box-sizing']) for (const size in sizeProps)
BoxEnd(st, rs, allowTable, ignoreRanges, props) ==
  IF Has(props, "box-sizing") THEN st
  ELSE LET w == IF Has(props, "width")
                THEN BoxProps(st, rs, allowTable, ignoreRanges, props, "width", sizeProps.width)
                ELSE st
       IN IF Has(props, "height")
          THEN BoxProps(w, rs, allowTable, ignoreRanges, props, "height", sizeProps.height)
          ELSE w

One == [line |-> Absent, col |-> Absent, value |-> "1"]

\* CSSLint.addRule['box-model']
RuleBoxModel(st, rs, allowTable, ignoreRanges, ev) ==
  LET on == HandlersOn(AllHandlers, ev.type)
      scope == st.boxModel
  IN IF on = <<>> THEN st
     ELSE CASE on[1] = "start" ->
                 [st EXCEPT !.boxModel.stack = Append(@, scope.props),
                            !.boxModel.props = EmptyProps]
            [] on[1] = "property" ->
                 IF scope.props.isNull \/ ev.inParens THEN st
                 ELSE LET name == getPropName(ev.name)
                          v == CSSValue(ev.value)
                      IN IF Includes(sizeProps.width, name) \/ Includes(sizeProps.height, name)
                         THEN IF ~IsZero(v.chars) /\ (name # "border" \/ LowText(ev.value) # "none")
                              THEN [st EXCEPT !.boxModel.props =
                                      Put(scope.props, name,
                                          [line |-> ev.line, col |-> ev.col, value |-> ev.value])]
                              ELSE st
                         ELSE IF name = "box-sizing"
                                 \* /^(width|height)/i on these names, /^(length|%)/ on the type
                                 \/ (name \in {"width", "height"} /\ v.parts[1].type = "length")
                         THEN [st EXCEPT !.boxModel.props = Put(scope.props, name, One)]
                         ELSE st
            [] on[1] = "end" ->
                 LET told == IF scope.props.isNull THEN Raise(st, Call("report", ID_box_model, NullPos))
                             ELSE BoxEnd(st, rs, allowTable, ignoreRanges, scope.props)
                 IN IF told.thrown THEN told ELSE [told EXCEPT !.boxModel = PopProps(scope)]

\* CSSLint.addRule['text-indent']
RuleTextIndent(st, rs, allowTable, ignoreRanges, ev) ==
  LET on == HandlersOn(AllHandlers, ev.type)
      own == st.textIndent
  IN IF on = <<>> THEN st
     ELSE CASE on[1] = "start" ->
                 [st EXCEPT !.textIndent = [textIndent |-> NullPos, isLtr |-> FALSE]]
            [] on[1] = "property" ->
                 IF ev.inParens THEN st
                 ELSE LET name == getPropName(ev.name)
                          v == CSSValue(ev.value)
                      IN IF name = "text-indent" /\ v.parts[1].number < -99
                         THEN [st EXCEPT !.textIndent.textIndent = Pos(ev.line, ev.col)]
                         \* /^ltr$/i.test(value)
                         ELSE IF name = "direction" /\ toLowerCase(v.chars) = <<"l", "t", "r">>
                         THEN [st EXCEPT !.textIndent.isLtr = TRUE]
                         ELSE st
            [] on[1] = "end" ->
                 IF ~own.textIndent.isNull /\ ~own.isLtr
                 THEN ReporterReport(st, rs, allowTable, ignoreRanges,
                                     Text("Negative text-indent doesn't work well with RTL", 0),
                                     own.textIndent, ID_text_indent)
                 ELSE st

\* the UTF-16 code units of the lower-cased property names of this model
CodeUnits(name) ==
  CASE name = "border" -> <<98, 111, 114, 100, 101, 114>>
    [] name = "border-left" -> <<98, 111, 114, 100, 101, 114, 45, 108, 101, 102, 116>>
    [] name = "box-sizing" -> <<98, 111, 120, 45, 115, 105, 122, 105, 110, 103>>
    [] name = "color" -> <<99, 111, 108, 111, 114>>
    [] name = "direction" -> <<100, 105, 114, 101, 99, 116, 105, 111, 110>>
    [] name = "float" -> <<102, 108, 111, 97, 116>>
    [] name = "grid-column-end" -> <<103, 114, 105, 100, 45, 99, 111, 108, 117, 109, 110, 45, 101, 110, 100>>
    [] name = "grid-column-start" -> <<103, 114, 105, 100, 45, 99, 111, 108, 117, 109, 110, 45, 115, 116, 97, 114, 116>>
    [] name = "grid-row-end" -> <<103, 114, 105, 100, 45, 114, 111, 119, 45, 101, 110, 100>>
    [] name = "grid-row-start" -> <<103, 114, 105, 100, 45, 114, 111, 119, 45, 115, 116, 97, 114, 116>>
    [] name = "height" -> <<104, 101, 105, 103, 104, 116>>
    [] name = "margin" -> <<109, 97, 114, 103, 105, 110>>
    [] name = "outline" -> <<111, 117, 116, 108, 105, 110, 101>>
    [] name = "padding" -> <<112, 97, 100, 100, 105, 110, 103>>
    [] name = "text-indent" -> <<116, 101, 120, 116, 45, 105, 110, 100, 101, 110, 116>>
    [] name = "width" -> <<119, 105, 100, 116, 104>>
    [] OTHER -> <<>>

\* a < b of two strings: by code units, a proper prefix comes first
RECURSIVE LessUnits(_, _)
LessUnits(a, b) ==
  IF b = <<>> THEN FALSE
  ELSE IF a = <<>> THEN TRUE
  ELSE IF Head(a) # Head(b) THEN Head(a) < Head(b)
  ELSE LessUnits(Tail(a), Tail(b))

\* the end handler of order-alphabetical that keeps last and failed of the block that ended
OrderEndKeeps(st) == [st EXCEPT !.orderAlphabetical.stack = SubSeq(@, 1, Len(@) - 1)]

\* ({last, failed} = stack.pop()): destructuring undefined throws
OrderEnd(st) ==
  LET own == st.orderAlphabetical
  IN IF own.stack = <<>> THEN Raise(st, Call("end", ID_order_alphabetical, NullPos))
     ELSE [st EXCEPT !.orderAlphabetical =
             [stack |-> SubSeq(own.stack, 1, Len(own.stack) - 1),
              last |-> own.stack[Len(own.stack)].last,
              failed |-> own.stack[Len(own.stack)].failed]]

\* CSSLint.addRule['order-alphabetical']
RuleOrderAlphabetical(st, rs, allowTable, ignoreRanges, ev) ==
  LET on == HandlersOn(AllHandlers, ev.type)
      own == st.orderAlphabetical
  IN IF on = <<>> THEN st
     ELSE CASE on[1] = "start" ->
                 [st EXCEPT !.orderAlphabetical =
                    [stack |-> Append(own.stack, [last |-> own.last, failed |-> own.failed]),
                     last |-> "", failed |-> FALSE]]
            [] on[1] = "property" ->
                 IF ev.inParens \/ own.failed THEN st
                 ELSE LET name == getPropName(ev.name)
                          told == IF LessUnits(CodeUnits(name), CodeUnits(own.last))
                                  THEN [ReporterReport(st, rs, allowTable, ignoreRanges,
                                                       Text("Non-alphabetical order", 0),
                                                       Pos(ev.line, ev.col), ID_order_alphabetical)
                                          EXCEPT !.orderAlphabetical.failed = TRUE]
                                  ELSE st
                      IN [told EXCEPT !.orderAlphabetical.last = name]
            [] on[1] = "end" -> OrderEnd(st)

\* CSSLint.addRule['globals-in-document']
RuleGlobalsInDocument(st, rs, allowTable, ignoreRanges, ev) ==
  LET own == st.globalsInDocument
  IN CASE ev.type = "startdocument" -> [st EXCEPT !.globalsInDocument.level = @ + 1]
       \* level-- * index++
       [] ev.type = "enddocument" ->
            [st EXCEPT !.globalsInDocument = [level |-> own.level - 1, index |-> own.index + 1]]
       [] ev.type \in {"import", "charset", "namespace"} ->
            IF own.level # 0 /\ own.index # 0
            THEN ReporterReport(st, rs, allowTable, ignoreRanges,
                                Text("A nested @" \o ev.type \o " is valid only in the first section", 0),
                                Pos(ev.line, ev.col), ID_globals_in_document)
            ELSE st
       [] OTHER -> st

\* a simple selector with an element name: h3, h3:hover
Elem(elementName, modifiers) ==
  [hasModifiers |-> TRUE, modifiers |-> modifiers, elementName |-> elementName]

\* /h([1-6])/i on an element name: RegExp.$1 of the first match, 0 when none
HeadingOf(chars) ==
  LET at == {i \in 1..(Len(chars) - 1) :
               toLowerCase(<<chars[i]>>) = <<"h">> /\ chars[i + 1] \in {"1", "2", "3", "4", "5", "6"}}
  IN IF at = {} THEN 0
     ELSE CHOOSE n \in 1..6 :
            chars[(CHOOSE i \in at : \A j \in at : i <= j) + 1] = <<"1", "2", "3", "4", "5", "6">>[n]

\* unique-headings on startrule: for (const {parts} of event.selectors)
RECURSIVE HeadingsOfSelectors(_, _, _, _, _)
HeadingsOfSelectors(st, rs, allowTable, ignoreRanges, sels) ==
  IF sels = <<>> \/ st.thrown THEN st
  ELSE LET sel == Head(sels)
           p == sel.parts[Len(sel.parts)]
           n == IF "elementName" \in DOMAIN p THEN HeadingOf(p.elementName) ELSE 0
           counted == n # 0 /\ \A k \in 1..Len(p.modifiers) : p.modifiers[k] # "pseudo"
           next == IF counted THEN [st EXCEPT !.headings[n] = @ + 1] ELSE st
       IN HeadingsOfSelectors(
            \* ++headings[RegExp.$1 - 1] > 1; the part p gives the position
            IF counted /\ next.headings[n] > 1
            THEN ReporterReport(next, rs, allowTable, ignoreRanges,
                                Text("Heading has already been defined", n),
                                Pos(sel.line, sel.col), ID_unique_headings)
            ELSE next,
            rs, allowTable, ignoreRanges, Tail(sels))

\* the decimal text of a count
NumberText(n) == <<"0", "1", "2", "3", "4", "5", "6", "7", "8", "9">>[n + 1]

\* headings.filter(h => h > 1).map((h, i) => `${h} H${i + 1}s`): i counts the kept ones
HeadingStats(counts) ==
  LET kept == SelectSeq(counts, LAMBDA h : h > 1)
  IN [i \in 1..Len(kept) |-> NumberText(kept[i]) \o " H" \o NumberText(i) \o "s"]

\* stats.join(', ')
RECURSIVE JoinComma(_)
JoinComma(pieces) ==
  IF pieces = <<>> THEN ""
  ELSE IF Len(pieces) = 1 THEN pieces[1]
  ELSE pieces[1] \o ", " \o JoinComma(Tail(pieces))

\* CSSLint.addRule['unique-headings']
RuleUniqueHeadings(st, rs, allowTable, ignoreRanges, ev) ==
  CASE ev.type = "startrule" ->
         HeadingsOfSelectors(st, rs, allowTable, ignoreRanges, ev.selectorList)
    [] ev.type = "endstylesheet" ->
         LET stats == HeadingStats(st.headings)
         IN IF stats # <<>>
            THEN ReporterRollupWarn(st, Text(JoinComma(stats), 0), ID_unique_headings)
            ELSE st
    [] OTHER -> st

\* the listeners one rule attached in its init, run on one event
RuleOn(id, st, rs, allowTable, ignoreRanges, ev) ==
  CASE id = ID_errors -> RuleErrors(st, ev)
    [] id = ID_import -> RuleImport(st, rs, allowTable, ignoreRanges, ev)
    [] id = ID_empty_rules -> RuleEmptyRules(st, rs, allowTable, ignoreRanges, ev)
    [] id = ID_floats -> RuleFloats(st, ev)
    [] id = ID_font_faces -> RuleFontFaces(st, ev)
    [] id = ID_ids -> RuleIdSelectors(st, rs, allowTable, ignoreRanges, ev)
    [] id = ID_important -> RuleImportant(st, rs, allowTable, ignoreRanges, ev)
    [] id = ID_outline_none -> RuleOutlineNone(st, rs, allowTable, ignoreRanges, ev)
    [] id = ID_shorthand -> RuleShorthand(st, rs, allowTable, ignoreRanges, ev)
    [] id = ID_duplicate_properties ->
         RuleDuplicateProperties(st, rs, allowTable, ignoreRanges, ev)
    [] id = ID_box_model -> RuleBoxModel(st, rs, allowTable, ignoreRanges, ev)
    [] id = ID_text_indent -> RuleTextIndent(st, rs, allowTable, ignoreRanges, ev)
    [] id = ID_globals_in_document ->
         RuleGlobalsInDocument(st, rs, allowTable, ignoreRanges, ev)
    [] id = ID_order_alphabetical ->
         RuleOrderAlphabetical(st, rs, allowTable, ignoreRanges, ev)
    [] id = ID_unique_headings -> RuleUniqueHeadings(st, rs, allowTable, ignoreRanges, ev)
    [] OTHER -> st

\* The parser fires an event: the listeners run in the order their rules were
\* initialised; an exception of one leaves the dispatch.
RECURSIVE Dispatch(_, _, _, _, _, _)
Dispatch(active, st, rs, allowTable, ignoreRanges, ev) ==
  IF active = <<>> \/ st.thrown THEN st
  ELSE Dispatch(Tail(active), RuleOn(Head(active), st, rs, allowTable, ignoreRanges, ev),
                rs, allowTable, ignoreRanges, ev)

\* ------------------------------------------------------------------ verify
\* (a, b) => !!a.rollup - !!b.rollup || a.line - b.line || a.col - b.col
\* a missing line or col makes its difference NaN, which || skips and sort reads as 0
Diff(x, y) == IF x = Absent \/ y = Absent THEN 0 ELSE x - y

\* Compare without its last term
CompareNoCol(a, b) ==
  LET r == (IF a.rollup THEN 1 ELSE 0) - (IF b.rollup THEN 1 ELSE 0)
  IN IF r # 0 THEN r ELSE Diff(a.line, b.line)

Compare(a, b) ==
  LET r == (IF a.rollup THEN 1 ELSE 0) - (IF b.rollup THEN 1 ELSE 0)
  IN IF r # 0 THEN r
     ELSE IF Diff(a.line, b.line) # 0 THEN Diff(a.line, b.line)
     ELSE Diff(a.col, b.col)

\* Array.prototype.sort is stable: m goes behind everything that is not greater
InsertSorted(sorted, m) ==
  LET before == {i \in 1..Len(sorted) : Compare(sorted[i], m) <= 0}
      k == IF before = {} THEN 0 ELSE Max(before)
  IN SubSeq(sorted, 1, k) \o <<m>> \o SubSeq(sorted, k + 1, Len(sorted))

RECURSIVE SortMessages(_)
SortMessages(msgs) ==
  IF msgs = <<>> THEN <<>>
  ELSE InsertSorted(SortMessages(SubSeq(msgs, 1, Len(msgs) - 1)), msgs[Len(msgs)])

\* ------------------------------------------------ grammar abbreviations
\* The texts below are sequences of characters.
Letters ==
  {"a", "b", "c", "d", "e", "f", "g", "h", "i", "j", "k", "l", "m",
   "n", "o", "p", "q", "r", "s", "t", "u", "v", "w", "x", "y", "z"}

\* \w and \W of a regular expression
IsWord(c) == c \in Letters \cup {x \in Digits : TRUE} \cup {"_"}

ABBR_MAP ==
  <<[abbr |-> <<"i", "n", "t">>,
     full |-> <<"i", "n", "t", "e", "g", "e", "r">>],
    [abbr |-> <<"l", "e", "n">>,
     full |-> <<"l", "e", "n", "g", "t", "h">>],
    [abbr |-> <<"n", "u", "m">>,
     full |-> <<"n", "u", "m", "b", "e", "r">>],
    [abbr |-> <<"p", "c", "t">>,
     full |-> <<"p", "e", "r", "c", "e", "n", "t", "a", "g", "e">>],
    [abbr |-> <<"r", "e", "l", "-", "h", "s", "l">>,
     full |-> <<"h", "-", "s", "-", "l", "-", "a", "l", "p", "h", "a", "-", "n", "o", "n", "e">>],
    [abbr |-> <<"r", "e", "l", "-", "h", "w", "b">>,
     full |-> <<"h", "-", "w", "-", "b", "-", "a", "l", "p", "h", "a", "-", "n", "o", "n", "e">>],
    [abbr |-> <<"r", "e", "l", "-", "l", "a", "b">>,
     full |-> <<"l", "-", "a", "-", "b", "-", "a", "l", "p", "h", "a", "-", "n", "o", "n", "e">>],
    [abbr |-> <<"r", "e", "l", "-", "l", "c", "h">>,
     full |-> <<"l", "-", "c", "-", "h", "-", "a", "l", "p", "h", "a", "-", "n", "o", "n", "e">>],
    [abbr |-> <<"r", "e", "l", "-", "r", "g", "b">>,
     full |-> <<"r", "-", "g", "-", "b", "-", "a", "l", "p", "h", "a", "-", "n", "o", "n", "e">>]>>

\* ABBR_MAP[str], a missing key gives undefined
AbbrGet(str) ==
  IF \E i \in 1..Len(ABBR_MAP) : ABBR_MAP[i].abbr = str
  THEN ABBR_MAP[CHOOSE i \in 1..Len(ABBR_MAP) : ABBR_MAP[i].abbr = str].full
  ELSE <<"u", "n", "d", "e", "f", "i", "n", "e", "d">>

\* c + (ABBR_MAP[str]) || str: the sum is a non-empty string even when the key is
\* missing (c + undefined), so the right side of || is never taken
unabbreviate(c, str) == <<c>> \o AbbrGet(str)

\* (int|len|num|pct|rel-(\w{3}))(?=\W) tried at index i: the alternative that
\* matches there with a non-word character behind it, <<>> when none does
GroupAt(chars, i) ==
  LET Fits(w) == /\ i + Len(w) <= Len(chars)
                 /\ SubSeq(chars, i, i + Len(w) - 1) = w
                 /\ ~IsWord(chars[i + Len(w)])
      rel == IF i + 6 <= Len(chars) THEN SubSeq(chars, i, i + 6) ELSE <<>>
  IN IF Fits(<<"i", "n", "t">>) THEN <<"i", "n", "t">>
     ELSE IF Fits(<<"l", "e", "n">>) THEN <<"l", "e", "n">>
     ELSE IF Fits(<<"n", "u", "m">>) THEN <<"n", "u", "m">>
     ELSE IF Fits(<<"p", "c", "t">>) THEN <<"p", "c", "t">>
     ELSE IF /\ rel # <<>>
             /\ SubSeq(rel, 1, 4) = <<"r", "e", "l", "-">>
             /\ \A k \in 5..7 : IsWord(rel[k])
             /\ Fits(rel)
          THEN rel
          ELSE <<>>

\* rxGrammarAbbr tried at index i: ([-<]) and then the group
MatchAt(chars, i) ==
  IF chars[i] \in {"-", "<"} THEN GroupAt(chars, i + 1) ELSE <<>>

\* message.replace(rxGrammarAbbr, unabbreviate): replace with a global regular
\* expression starts at index 0 whatever lastIndex was set to, replaces every
\* match from left to right and copies the characters between the matches
RECURSIVE ReplaceFrom(_, _)
ReplaceFrom(chars, i) ==
  IF i > Len(chars) THEN <<>>
  ELSE LET str == MatchAt(chars, i)
       IN IF str = <<>>
          THEN <<chars[i]>> \o ReplaceFrom(chars, i + 1)
          ELSE unabbreviate(chars[i], str) \o ReplaceFrom(chars, i + 1 + Len(str))

\* message.indexOf(c), counted from 0
IndexOf(chars, c) ==
  LET at == {i \in 1..Len(chars) : chars[i] = c}
  IN IF at = {} THEN 0 - 1 ELSE (CHOOSE i \in at : \A j \in at : i <= j) - 1

\* Unabbreviated without the test for a '<'
UnabbreviatedAlways(chars) == ReplaceFrom(chars, 1)

\* if ((rxGrammarAbbr.lastIndex = msg.message.indexOf('<')) >= 0) msg.message = ...
Unabbreviated(chars) ==
  IF IndexOf(chars, "<") >= 0 THEN ReplaceFrom(chars, 1) ELSE chars

\* for (const msg of messages): the texts the rules build hold no '<'
PostProcess(msgs) ==
  [i \in 1..Len(msgs) |-> [msgs[i] EXCEPT !.message.grammar = Unabbreviated(@)]]

\* ForceErrors left out
ForceErrorsNot(rs) == rs

\* always report parsing errors as errors
ForceErrors(rs) == RsSet(rs, ID_errors, "2")

\* for (const [id, mode] of Object.entries(ruleset)): the rules whose init runs, in
\* order (no registered rule has an integer-like id, which entries() would move up)
RECURSIVE InitOrder(_)
InitOrder(rs) ==
  IF rs = <<>> THEN <<>>
  ELSE (IF Truthy(Head(rs).level) /\ Head(rs).id \in RuleIds THEN <<Head(rs).id>> ELSE <<>>)
       \o InitOrder(Tail(rs))

\* the (ruleset, allow, ignore) verify works with, before errors is forced
Overrides(text, base) ==
  LET emi == Probe(text)
  IN IF emi >= 0 THEN applyEmbeddedOverrides(text, base, emi)
     ELSE [ruleset |-> base, allow |-> <<>>, ignore |-> <<>>]

\* CatchFatal with an empty catch block
CatchFatalSilent(st, ex) == [st EXCEPT !.thrown = FALSE]

\* catch (ex) { reporter.error('Fatal error, cannot continue!\n' + ex.stack, ex, {}) }
CatchFatal(st, ex) ==
  ReporterError([st EXCEPT !.thrown = FALSE], Text("Fatal error, cannot continue!", 0), ex, NoRule)

\* ------------------------------------------------------------- the sources
\* A text is written as a sequence of tokens.
B_ignore_start == <<"i", "g", "n", "o", "r", "e", ":", "s", "t", "a", "r", "t">>
B_ignore_end == <<"i", "g", "n", "o", "r", "e", ":", "e", "n", "d">>
B_allow_import == <<"a", "l", "l", "o", "w", ":", "i", "m", "p", "o", "r", "t">>
B_allow_empty_rules ==
  <<"a", "l", "l", "o", "w", ":", "e", "m", "p", "t", "y", "-", "r", "u", "l", "e", "s">>
B_allow_important ==
  <<"a", "l", "l", "o", "w", ":", "i", "m", "p", "o", "r", "t", "a", "n", "t">>
B_import2 == <<"i", "m", "p", "o", "r", "t", ":", "2">>
B_levels == <<"i", "d", "s", ":", "1", ",", " ", "i", "m", "p", "o", "r", "t", ":",
              "t", "r", "u", "e", ",", " ", "e", "r", "r", "o", "r", "s", ":", "0">>
S_CSSLint == <<"C", "S", "S", "L", "i", "n", "t">>

Directive(keyword, body) ==
  <<"/", "*", " ">> \o keyword \o <<" ">> \o body \o <<" ", "*", "/">>

Render(token) ==
  CASE token = "nl" -> <<"\n">>
    [] token = "code" -> <<"a", "{", "}">>
    [] token = "comment" -> <<"/", "*", " ", "x", " ", "*", "/">>
    [] token = "ignore:start" -> Directive(S_csslint, B_ignore_start)
    [] token = "ignore:end" -> Directive(S_csslint, B_ignore_end)
    [] token = "CSSLint ignore:start" -> Directive(S_CSSLint, B_ignore_start)
    [] token = "allow:import" -> Directive(S_csslint, B_allow_import)
    [] token = "allow:empty-rules" -> Directive(S_csslint, B_allow_empty_rules)
    [] token = "allow:import on three lines" ->
         <<"/", "*", "\n">> \o S_csslint \o <<"\n">> \o B_allow_import \o <<" ", "*", "/">>
    [] token = "allow:important" -> Directive(S_csslint, B_allow_important)
    [] token = "import:2" -> Directive(S_csslint, B_import2)
    [] token = "ids:1, import:true, errors:0" -> Directive(S_csslint, B_levels)

RECURSIVE RenderAll(_)
RenderAll(tokens) ==
  IF tokens = <<>> THEN <<>> ELSE Render(Head(tokens)) \o RenderAll(Tail(tokens))

Sources(tokens, n) == UNION {[1..k -> tokens] : k \in 0..n}


\* ------------------------------------------------------- tabs and openURL
\* A URL: what stands before the separator, the separator (':' or '://', none in
\* a relative URL), the rest up to the '#', and the hash with its '#'.
Url(scheme, sep, rest, hash) == [scheme |-> scheme, sep |-> sep, rest |-> rest, hash |-> hash]

\* undefined or ''
NoUrl == Url("", "", "", "")

\* URLS.emptyTab
URLS_emptyTab ==
  <<Url("chrome", "://", "newtab/", ""),
    Url("chrome", "://", "startpage/", ""),
    Url("chrome-extension", "://",
        "mpognobbkildjkofajifpdfhcoklimli/components/startpage/startpage.html", ""),
    Url("about", ":", "home", ""),
    Url("about", ":", "newtab", "")>>

\* url.includes('://')
IncludesSlashes(url) == url.sep = "://"

\* chrome.runtime.getURL(url): the full URL of a path of the extension
getURL(url) == Url("chrome-extension", "://", "stylus/" \o url.rest, url.hash)

\* newUrl.startsWith('chrome')
StartsWithChrome(url) == url.scheme \in {"chrome", "chrome-extension"}

\* url.split('#')[0]
SplitHash(url) == [url EXCEPT !.hash = ""]

\* url.includes('#')
IncludesHash(url) == url.hash # ""

\* tab.pendingUrl || tab.url
Showing(tab) == IF tab.pendingUrl # NoUrl THEN tab.pendingUrl ELSE tab.url

Tab(id, url, pendingUrl, incognito, active) ==
  [id |-> id, url |-> url, pendingUrl |-> pendingUrl, incognito |-> incognito, active |-> active]

\* {url: ''}
UrlOnly == Tab(Absent, NoUrl, NoUrl, FALSE, FALSE)

\* (await browser.tabs.query(...))[0] of the tabs that pass the filter, null when none does
First(all, Passes(_)) ==
  LET at == {i \in 1..Len(all) : Passes(all[i])}
  IN IF at = {} THEN [isNull |-> TRUE, tab |-> UrlOnly]
     ELSE [isNull |-> FALSE, tab |-> all[CHOOSE i \in at : \A k \in at : i <= k]]

\* browser.tabs.query({url: url.split('#')[0], currentWindow}): the hash of a
\* tab's URL plays no role in the match
QueryUrl(all, url) ==
  LET Passes(t) == SplitHash(t.url) = SplitHash(url) IN First(all, Passes)

\* getActiveTab: browser.tabs.query({currentWindow: true, active: true})[0]
getActiveTab(all) ==
  LET Passes(t) == t.active IN First(all, Passes)

\* isTabReplaceable(tab, newUrl); the tab handed in is never null
isTabReplaceable(tab, newUrl) ==
  /\ Includes(URLS_emptyTab, Showing(tab))
  /\ ~(tab.incognito /\ StartsWithChrome(newUrl))

\* the calls of the browser API openURL makes
NoCall == [api |-> "", id |-> Absent, url |-> NoUrl, opener |-> Absent]

\* activateTab(tab, {url, openerTabId}): browser.tabs.update(tab.id, options),
\* the options hold the url when one is given; no caller hands in an openerTabId
activateTab(tab, url) == [NoCall EXCEPT !.api = "tabs.update", !.id = tab.id, !.url = url]

\* browser.tabs.create(Object.assign({url, index, active}, opener))
CreateTab(tab, url, supported) ==
  [NoCall EXCEPT !.api = "tabs.create", !.url = url,
                 !.opener = IF tab.id # Absent /\ ~tab.incognito /\ supported
                            THEN tab.id ELSE Absent]

\* browser.windows.create(Object.assign({url}, newWindow))
CreateWindow(url) == [NoCall EXCEPT !.api = "windows.create", !.url = url]

\* what the browser does with a call: update activates the tab and loads the
\* url if one is given, create adds an active tab, a new window leaves the tabs
\* of this window alone
Apply(all, call) ==
  IF call.api = "tabs.update"
  THEN [i \in 1..Len(all) |->
          IF all[i].id = call.id
          THEN [all[i] EXCEPT !.active = TRUE,
                              !.pendingUrl = IF call.url # NoUrl THEN call.url ELSE @]
          ELSE [all[i] EXCEPT !.active = FALSE]]
  ELSE IF call.api = "tabs.create"
  THEN [i \in 1..Len(all) |-> [all[i] EXCEPT !.active = FALSE]]
       \o <<Tab(Len(all) + 1, NoUrl, call.url, FALSE, TRUE)>>
  ELSE all

\* openURL before it is called
NotOpening ==
  [at |-> "idle", url |-> NoUrl, newTab |-> FALSE, newWindow |-> FALSE,
   windows |-> FALSE, supported |-> FALSE]

\* ------------------------------------------------ timers of the browser
\* A timeout id is a positive number that is never handed out twice; 0 stands
\* for a value that is no id (undefined, or a loadTimeout of 0).
NoTimer == 0

\* a timeout that is scheduled: its id, its callback and the arguments handed on
Timeout(id, callback, fn, args) == [id |-> id, callback |-> callback, fn |-> fn, args |-> args]

\* clearTimeout(id): a value that is no pending id is passed over
clearTimeout(pending, id) == {t \in pending : t.id # id}

\* debounce.timers.get(fn)
TimersGet(map, fn) == IF fn \in DOMAIN map THEN map[fn] ELSE NoTimer

\* debounce.timers.set(fn, id)
TimersSet(map, fn, id) == [f \in (DOMAIN map) \cup {fn} |-> IF f = fn THEN id ELSE map[f]]

\* debounce.timers.delete(fn)
TimersDelete(map, fn) == [f \in (DOMAIN map) \ {fn} |-> map[f]]

\* Debounced without the clearTimeout
DebouncedKeepsPending(st, fn, args) ==
  [timers |-> TimersSet(st.timers, fn, st.nextTimer),
   timeouts |-> st.timeouts \cup {Timeout(st.nextTimer, "debounce.run", fn, args)},
   nextTimer |-> st.nextTimer + 1]

\* function debounce(fn, delay, ...args)
Debounced(st, fn, args) ==
  [timers |-> TimersSet(st.timers, fn, st.nextTimer),
   timeouts |-> clearTimeout(st.timeouts, TimersGet(st.timers, fn))
                  \cup {Timeout(st.nextTimer, "debounce.run", fn, args)},
   nextTimer |-> st.nextTimer + 1]

\* ---------------------------------------------------------------- download
\* the XMLHttpRequest of one call of download with the locals of its promise
\* executor: readyState, whether onreadystatechange is still set, the timer
\* variable, whether loadTimeout is truthy, which events were fired, the state
\* of the promise, and whether onTimeout ran after load, error or loadend
NoRequest ==
  [readyState |-> 0, sent |-> FALSE, onreadystatechange |-> FALSE, timer |-> NoTimer,
   loadTimeout |-> FALSE, loaded |-> FALSE, failed |-> FALSE, ended |-> FALSE,
   replaced |-> 0, promise |-> "none", late |-> FALSE]

\* xhr.onreadystatechange
OnReadyStateChange(st) ==
  IF st.request.onreadystatechange /\ st.request.readyState >= 2
  THEN LET cleared == clearTimeout(st.timeouts, st.request.timer)
       IN IF st.request.loadTimeout
          \* timer = loadTimeout && setTimeout(onTimeout, loadTimeout)
          THEN [request |-> [st.request EXCEPT !.onreadystatechange = FALSE,
                                                !.timer = st.nextTimer, !.replaced = @ + 1],
                timeouts |-> cleared \cup {Timeout(st.nextTimer, "onTimeout", "", 0)},
                nextTimer |-> st.nextTimer + 1]
          ELSE [request |-> [st.request EXCEPT !.onreadystatechange = FALSE,
                                                !.timer = NoTimer, !.replaced = @ + 1],
                timeouts |-> cleared,
                nextTimer |-> st.nextTimer]
  ELSE st

\* resolve and reject settle a promise once
Settle(request, how) ==
  IF request.promise = "pending" THEN [request EXCEPT !.promise = how] ELSE request

\* xhr.onload
OnLoad(st, statusOk) ==
  [st EXCEPT !.request = [Settle(st.request, IF statusOk THEN "resolved" ELSE "rejected")
                            EXCEPT !.loaded = TRUE]]

\* xhr.onerror = () => reject(xhr.status)
OnXhrError(st) == [st EXCEPT !.request = [Settle(st.request, "rejected") EXCEPT !.failed = TRUE]]

\* OnLoadEnd that leaves the timer pending
OnLoadEndKeepsTimer(st) == [st EXCEPT !.request.ended = TRUE]

\* xhr.onloadend = () => clearTimeout(timer)
OnLoadEnd(st) ==
  [st EXCEPT !.timeouts = clearTimeout(st.timeouts, st.request.timer), !.request.ended = TRUE]

\* xhr.abort(): a request that was sent and is not done goes to DONE, fires
\* readystatechange, abort and loadend, and then goes back to UNSENT
XhrAbort(st) ==
  IF st.request.sent /\ st.request.readyState \in 1..3
  THEN LET done == OnLoadEnd(OnReadyStateChange([st EXCEPT !.request.readyState = 4]))
       IN [done EXCEPT !.request.readyState = 0, !.request.sent = FALSE]
  ELSE [st EXCEPT !.request.readyState = 0, !.request.sent = FALSE]

\* onTimeout = () => { xhr.abort(); reject(new Error('Timeout fetching ' + u.href)) }
OnTimeout(st) ==
  LET late == st.request.loaded \/ st.request.failed \/ st.request.ended
      aborted == XhrAbort(st)
  IN [aborted EXCEPT !.request = [Settle(aborted.request, "rejected") EXCEPT !.late = @ \/ late]]

\* --------------------------------------------------------------- deepEqual
\* A JavaScript value: a primitive with its typeof and its text, an array with
\* its items, or a plain object with its own enumerable properties in order.
Prim(type, val) == [kind |-> "prim", type |-> type, val |-> val, items |-> <<>>]
Arr(items) == [kind |-> "array", type |-> "object", val |-> "", items |-> items]
Obj(props) == [kind |-> "object", type |-> "object", val |-> "", items |-> props]
Property(key, value) == [key |-> key, value |-> value]

JsUndefined == Prim("undefined", "")

\* !v: undefined, null, 0 and '' are falsy
Falsy(v) ==
  /\ v.kind = "prim"
  /\ \/ v.type \in {"undefined", "null"}
     \/ v.type = "number" /\ v.val = "0"
     \/ v.type = "string" /\ v.val = ""

\* typeof v: 'object' for null
TypeOf(v) == IF v.kind = "prim" /\ v.type = "null" THEN "object" ELSE v.type

\* a === b where one of the two is a primitive
StrictEquals(a, b) == a.kind = "prim" /\ a = b

\* the keys for (const key in v) visits
KeysIn(v) ==
  IF v.kind = "array" THEN [i \in 1..Len(v.items) |-> NumberText(i - 1)]
  ELSE [i \in 1..Len(v.items) |-> v.items[i].key]

\* Object.hasOwnProperty.call(v, key): an array owns its indices and length
HasOwn(v, key) ==
  IF v.kind = "array"
  THEN key = "length" \/ \E i \in 1..Len(v.items) : NumberText(i - 1) = key
  ELSE \E i \in 1..Len(v.items) : v.items[i].key = key

\* v[key] of a key that v owns
GetOwn(v, key) ==
  IF v.kind = "array"
  THEN IF key = "length" THEN Prim("number", NumberText(Len(v.items)))
       ELSE v.items[CHOOSE i \in 1..Len(v.items) : NumberText(i - 1) = key]
  ELSE v.items[CHOOSE i \in 1..Len(v.items) : v.items[i].key = key].value

\* function deepEqual(a, b, ignoredKeys)
RECURSIVE deepEqual(_, _, _)
deepEqual(a, b, ignoredKeys) ==
  IF Falsy(a) \/ Falsy(b) THEN StrictEquals(a, b)
  ELSE IF TypeOf(a) # TypeOf(b) THEN FALSE
  ELSE IF TypeOf(a) # "object" THEN StrictEquals(a, b)
  ELSE IF a.kind = "array"
  THEN /\ b.kind = "array"
       /\ Len(a.items) = Len(b.items)
       /\ \A i \in 1..Len(a.items) : deepEqual(a.items[i], b.items[i], ignoredKeys)
  ELSE LET ka == KeysIn(a)
           kb == KeysIn(b)
       IN /\ \A i \in 1..Len(ka) :
               ka[i] \in ignoredKeys
               \/ /\ HasOwn(b, ka[i])
                  /\ deepEqual(GetOwn(a, ka[i]), GetOwn(b, ka[i]), ignoredKeys)
          /\ \A i \in 1..Len(kb) :
               kb[i] \in ignoredKeys \/ HasOwn(a, kb[i])

\* no call of deepEqual was made
NoComparison ==
  [a |-> JsUndefined, b |-> JsUndefined, ignoredKeys |-> {}, called |-> FALSE,
   ab |-> FALSE, ba |-> FALSE]

\* ------------------------------------------------------------------- state
VARIABLES
  pc,             \* "idle", "parsing" (inside parser.parse) or "done" (verify returned)
  src,            \* the tokens of the text argument of verify
  rulesetArg,     \* the ruleset argument of verify, NoArg when it is left out
  ruleset,        \* reporter.ruleset
  allow,          \* reporter.allow: line -> set of rule ids
  ignore,         \* reporter.ignore: sequence of <<start, end>>
  messages,       \* reporter.messages in the order of the pushes
  calls,          \* the Reporter calls made during the latest event
  report,         \* the messages verify returns
  threw,          \* the catch block of verify ran
  stack,          \* the blocks the parser has open
  ended,          \* endstylesheet was fired
  floats,         \* count of the floats closure
  fontFaces,      \* count of the font-faces closure
  lastRule,       \* lastRule of the outline-none closure
  important,      \* count of the important closure
  stats,          \* reporter.stats: name -> value
  cloned,         \* verify works on a copy of the ruleset argument
  reuseCache,     \* the reuseCache option handed to parser.parse
  shorthand,      \* stack and props of registerShorthandEvents for the shorthand rule
  duplicateProperties,  \* stack, props and lastName of the duplicate-properties closure
  boxModel,       \* stack and props of the box-model closure
  textIndent,     \* textIndent and isLtr of the text-indent closure
  globalsInDocument,  \* level and index of the globals-in-document closure
  orderAlphabetical,  \* stack, last and failed of the order-alphabetical closure
  headings,       \* headings of the unique-headings closure
  sections,       \* how many @-moz-document sections the parser has opened at top level
  tabs,           \* the tabs of the current window, in the order of the tab strip
  opening,        \* openURL: where it stands ("idle", "query", "active", "done") and its locals
  api,            \* the calls of the browser API made by openURL
  timers,         \* debounce.timers: function -> timeout id
  timeouts,       \* the timeouts of the browser that are scheduled
  nextTimer,      \* the id setTimeout returns next
  trace,          \* the calls of debounce and unregister and the runs of the functions
  request,        \* the request of download
  comparison      \* the arguments of a call of deepEqual and what it returns for both orders

vars == <<pc, src, rulesetArg, ruleset, allow, ignore, messages, calls, report, threw,
          stack, ended, floats, fontFaces, lastRule, important, stats, cloned, reuseCache,
          shorthand, duplicateProperties, boxModel, textIndent, globalsInDocument,
          orderAlphabetical, headings, sections, tabs, opening, api,
          timers, timeouts, nextTimer, trace, request, comparison>>

utils == <<timers, timeouts, nextTimer, trace, request, comparison>>

linter == <<pc, src, rulesetArg, ruleset, allow, ignore, messages, calls, report, threw,
            stack, ended, floats, fontFaces, lastRule, important, stats, cloned, reuseCache,
            shorthand, duplicateProperties, boxModel, textIndent, globalsInDocument,
            orderAlphabetical, headings, sections>>

\* const stack = []; let props (, lastName): the closures of a rule before any event
NoScope == [stack |-> <<>>, props |-> NullProps]
NoScopeNamed == [stack |-> <<>>, props |-> NullProps, lastName |-> Undefined]

\* let textIndent, isLtr: both undefined before any event
NoTextIndent == [textIndent |-> NullPos, isLtr |-> FALSE]

\* let level = 0; let index = 0
NoDocument == [level |-> 0, index |-> 0]

\* const stack = []; let last, failed: both undefined before any event
\* (name < undefined is false, as name < '' is)
NoOrder == [stack |-> <<>>, last |-> "", failed |-> FALSE]

\* new Array(6).fill(0)
NoHeadings == [n \in 1..6 |-> 0]

\* the rules whose init ran, in the order of their listeners
listeners == InitOrder(ruleset)

MaxProps == 2        \* declarations the outline-none rule counts in one block
MaxFloats == 10      \* float declarations the floats rule counts
MaxFontFaces == 6    \* @font-face blocks the font-faces rule counts
MaxImportant == 10   \* !important declarations the important rule counts
MaxTabs == 2         \* tabs the user has opened before openURL is called
MaxPieces == 4       \* pieces a parser message is put together from
MaxNesting == 2      \* blocks open inside one another
MaxLineTokens == 3   \* tokens of a text whose directives are numbered
MaxRangeTokens == 5  \* tokens of a text handed to verify (ignore ranges)

Lines == 1..MaxLine
Cols == 1..MaxCol

Levels == {"0", "1", "2", "true", "false"}

\* an argument that is left out (undefined), or an object given by the caller
NoArg == [given |-> FALSE, obj |-> <<>>]
Given(obj) == [given |-> TRUE, obj |-> obj]

\* the text argument of the running call
TextOf(tokens) == RenderAll(tokens)

\* the state after construction but for the arguments of deepEqual
Idle ==
  /\ pc = "idle"
  /\ src = <<>>
  /\ rulesetArg = NoArg
  /\ ruleset = <<>>
  /\ allow = <<>>
  /\ ignore = <<>>
  /\ messages = <<>>
  /\ calls = <<>>
  /\ report = <<>>
  /\ threw = FALSE
  /\ stack = <<>>
  /\ ended = FALSE
  /\ floats = 0
  /\ fontFaces = 0
  /\ lastRule = NullRule
  /\ important = 0
  /\ stats = <<>>
  /\ cloned = FALSE
  /\ reuseCache = TRUE
  /\ shorthand = NoScope
  /\ duplicateProperties = NoScopeNamed
  /\ boxModel = NoScope
  /\ textIndent = NoTextIndent
  /\ globalsInDocument = NoDocument
  /\ orderAlphabetical = NoOrder
  /\ headings = NoHeadings
  /\ sections = 0
  /\ tabs = <<>>
  /\ opening = NotOpening
  /\ api = <<>>
  /\ timers = <<>>
  /\ timeouts = {}
  /\ nextTimer = 1
  /\ trace = <<>>
  /\ request = NoRequest

Init == Idle /\ comparison = NoComparison

\* is the key of an object an array index ("0", "1", ... without a leading zero)
IsIndexKey(id) ==
  /\ id # <<>>
  /\ \A i \in 1..Len(id) : id[i] \in Digits
  /\ Len(id) > 1 => id[1] # "0"

DigitValue(c) == CHOOSE n \in 0..9 : ToString(n) = c

RECURSIVE IndexValue(_)
IndexValue(id) ==
  IF id = <<>> THEN 0
  ELSE 10 * IndexValue(SubSeq(id, 1, Len(id) - 1)) + DigitValue(id[Len(id)])

\* the keys of an object as JS enumerates them: array indices first, ascending,
\* then the other keys in insertion order
RECURSIVE Ascending(_)
Ascending(es) ==
  IF es = {} THEN <<>>
  ELSE LET least == CHOOSE e \in es : \A f \in es : IndexValue(e.id) <= IndexValue(f.id)
       IN <<least>> \o Ascending(es \ {least})

Entries(rs) ==
  Ascending({rs[i] : i \in {j \in 1..Len(rs) : IsIndexKey(rs[j].id)}})
  \o SelectSeq(rs, LAMBDA e : ~IsIndexKey(e.id))

\* JSON.stringify([ruleset, allow, ignore]): one text per enumeration of the
\* ruleset, per allow table and per list of ranges
JSONOf(rs, allowTable, ignoreRanges) == <<Entries(rs), allowTable, ignoreRanges>>

\* let prevOverrides: the [ruleset, allow, ignore] of the latest call, objects
\* that this call's Reporter worked on (errors = 2 included)
HasPrevOverrides == pc # "idle"

\* the ruleset object of the caller as the call leaves it: without a copy it is
\* the object the Reporter holds
callerRuleset == IF rulesetArg.given /\ ~cloned THEN ruleset ELSE rulesetArg.obj

\* ReporterMessages that keeps the messages of the Reporter before
ReporterMessagesKept == messages

\* constructor of Reporter: this.messages = []
ReporterMessages == <<>>

\* the object verify returns: const report = {messages}
Returned == [messages |-> report]

\* verify(text, ruleset = this.getRuleSet()) up to the call of parser.parse
VerifyCall(tokens, arg) ==
  LET text == TextOf(tokens)
      base == IF arg.given THEN arg.obj ELSE getRuleSet
      ovr == Overrides(text, base)
      effective == ForceErrors(ovr.ruleset)
  IN /\ pc' = "parsing"
     /\ src' = tokens
     /\ rulesetArg' = arg
     /\ cloned' = (Probe(text) >= 0)
     \* compared before errors is forced on the new ruleset
     /\ reuseCache' = (~HasPrevOverrides
                        \/ JSONOf(ruleset, allow, ignore)
                             = JSONOf(ovr.ruleset, ovr.allow, ovr.ignore))
     /\ ruleset' = effective
     /\ allow' = ovr.allow
     /\ ignore' = ovr.ignore
     /\ messages' = ReporterMessages
     /\ stats' = <<>>
     /\ calls' = <<>>
     /\ report' = <<>>
     /\ threw' = FALSE
     /\ stack' = <<>>
     /\ ended' = FALSE
     /\ floats' = 0
     /\ fontFaces' = 0
     /\ lastRule' = NullRule
     /\ important' = 0
     /\ shorthand' = NoScope
     /\ duplicateProperties' = NoScopeNamed
     /\ boxModel' = NoScope
     /\ textIndent' = NoTextIndent
     /\ globalsInDocument' = NoDocument
     /\ orderAlphabetical' = NoOrder
     /\ headings' = NoHeadings
     /\ sections' = 0
     /\ UNCHANGED <<tabs, opening, api, utils>>

\* the first call of verify
VerifyStart(tokens, arg) == pc = "idle" /\ VerifyCall(tokens, arg)

\* a call of verify after an earlier call has returned
VerifyAgain(tokens, arg) == pc = "done" /\ VerifyCall(tokens, arg)

Positional(msgs) == Cardinality({i \in 1..Len(msgs) : ~msgs[i].rollup})

\* the rest of verify once parse is left: sort by line numbers, rollups at the
\* bottom, then the grammar abbreviations of every message are expanded;
\* the parser and the closures of the rules are local to the call and are gone
\* when it returns
Finish(st, caught) ==
  /\ pc' = "done"
  /\ messages' = st.messages
  /\ calls' = st.calls
  /\ report' = PostProcess(SortMessages(st.messages))
  /\ threw' = caught
  /\ floats' = 0
  /\ fontFaces' = 0
  /\ lastRule' = NullRule
  /\ important' = 0
  /\ stats' = <<>>
  /\ stack' = <<>>
  /\ ended' = FALSE
  /\ shorthand' = NoScope
  /\ duplicateProperties' = NoScopeNamed
  /\ boxModel' = NoScope
  /\ textIndent' = NoTextIndent
  /\ globalsInDocument' = NoDocument
  /\ orderAlphabetical' = NoOrder
  /\ headings' = NoHeadings
  /\ sections' = 0
  /\ UNCHANGED <<cloned, reuseCache, tabs, opening, api, utils>>

Closures == [messages |-> messages, calls |-> <<>>, thrown |-> FALSE,
             floats |-> floats, fontFaces |-> fontFaces, lastRule |-> lastRule,
             important |-> important, stats |-> stats, shorthand |-> shorthand,
             duplicateProperties |-> duplicateProperties, boxModel |-> boxModel,
             textIndent |-> textIndent, globalsInDocument |-> globalsInDocument,
             orderAlphabetical |-> orderAlphabetical, headings |-> headings]

\* what verify and the parser do once the listeners of an event have run
Fired(st, newStack, nowEnded) ==
  IF st.thrown
  THEN Finish(CatchFatal(st, Pos(Absent, Absent)), TRUE)
  ELSE /\ Positional(st.messages) <= MaxMsgs
       /\ messages' = st.messages
       /\ calls' = st.calls
       /\ floats' = st.floats
       /\ fontFaces' = st.fontFaces
       /\ lastRule' = st.lastRule
       /\ important' = st.important
       /\ stats' = st.stats
       /\ shorthand' = st.shorthand
       /\ duplicateProperties' = st.duplicateProperties
       /\ boxModel' = st.boxModel
       /\ textIndent' = st.textIndent
       /\ globalsInDocument' = st.globalsInDocument
       /\ orderAlphabetical' = st.orderAlphabetical
       /\ headings' = st.headings
       /\ sections' = IF stack = <<>> /\ newStack # <<>> /\ newStack[1].kind = "document"
                      THEN sections + 1 ELSE sections
       /\ stack' = newStack
       /\ ended' = nowEnded
       /\ UNCHANGED <<pc, report, threw, cloned, reuseCache, tabs, opening, api, utils>>

\* parser.fire(ev) inside parse; an exception of a listener reaches the catch of verify
Fire(ev, newStack, nowEnded) ==
  /\ pc = "parsing"
  /\ ~ended
  /\ Fired(Dispatch(listeners, Closures, ruleset, allow, ignore, ev), newStack, nowEnded)
  /\ UNCHANGED <<src, rulesetArg, ruleset, allow, ignore>>

Top == stack[Len(stack)]
Pop == SubSeq(stack, 1, Len(stack) - 1)
Block(kind, line, col, focus) ==
  [kind |-> kind, line |-> line, col |-> col, focus |-> focus, empty |-> TRUE]

OnError(positions) ==
  \E p \in positions :
    Fire([Ev("error") EXCEPT !.line = p[1], !.col = p[2]], stack, FALSE)

\* an error event whose message the parser put together
OnErrorWith(positions, texts) ==
  \E p \in positions, t \in texts :
    Fire([Ev("error") EXCEPT !.line = p[1], !.col = p[2], !.message = t], stack, FALSE)

OnImport(positions) ==
  /\ stack = <<>>
  /\ \E p \in positions :
       Fire([Ev("import") EXCEPT !.line = p[1], !.col = p[2]], stack, FALSE)

\* an @import, @charset or @namespace where the parser stands
OnGlobal(kinds, positions) ==
  \E k \in kinds, p \in positions :
    Fire([Ev(k) EXCEPT !.line = p[1], !.col = p[2]], stack, FALSE)

OnStartRule(positions, selectors) ==
  /\ Len(stack) < MaxDepth
  /\ \E p \in positions, f \in selectors :
       Fire([Ev("startrule") EXCEPT !.line = p[1], !.col = p[2], !.selectors = TRUE, !.focus = f],
            Append(stack, Block("rule", p[1], p[2], f)), FALSE)

\* a rule block opens; its selectors carry their parts and their positions
OnStartRuleWith(selectorLists) ==
  /\ Len(stack) < MaxDepth
  /\ \E sels \in selectorLists :
       Fire([Ev("startrule") EXCEPT !.line = sels[1].line, !.col = sels[1].col,
                                     !.selectors = TRUE, !.selectorList = sels],
            Append(stack, Block("rule", sels[1].line, sels[1].col, FALSE)), FALSE)

OnEndRule ==
  /\ stack # <<>>
  /\ Top.kind = "rule"
  /\ Fire([Ev("endrule") EXCEPT !.line = Top.line, !.col = Top.col, !.selectors = TRUE,
                                !.focus = Top.focus, !.empty = Top.empty],
          Pop, FALSE)

\* a block the parser has open, with what was declared directly in it outside
\* parentheses (name and value), the name declared last, whether a name
\* was declared after a greater one, whether a block nested in it has ended,
\* and the accumulator of the shorthand scope as it was when the block started
Scope(kind, line, col) ==
  [kind |-> kind, line |-> line, col |-> col, focus |-> FALSE, empty |-> TRUE,
   declared |-> {}, previous |-> "", outOfOrder |-> FALSE, nestedEnded |-> FALSE,
   outer |-> shorthand.props]

\* the open blocks once the innermost one has ended
Ended ==
  IF Len(stack) > 1 /\ "nestedEnded" \in DOMAIN stack[Len(stack) - 1]
  THEN [Pop EXCEPT ![Len(stack) - 1].nestedEnded = TRUE]
  ELSE Pop

\* a block of one of the kinds opens; a keyframe rule stands in @keyframes only
OnStartBlock(kinds, positions, depth) ==
  /\ Len(stack) < depth
  /\ \E k \in kinds, p \in positions :
       /\ k = "keyframerule" <=> (stack # <<>> /\ Top.kind = "keyframes")
       /\ Fire([Ev("start" \o k) EXCEPT !.line = p[1], !.col = p[2], !.selectors = (k = "rule")],
               Append(stack, Scope(k, p[1], p[2])), FALSE)

\* the open block ends
OnEndBlock ==
  /\ stack # <<>>
  /\ Fire([Ev("end" \o Top.kind) EXCEPT !.line = Top.line, !.col = Top.col,
                                         !.selectors = (Top.kind = "rule"), !.empty = Top.empty],
          Ended, FALSE)

\* a declaration of the open block: <<name, value, inParens, line, col>>
OnDeclaration(decls) ==
  /\ stack # <<>>
  /\ \E d \in decls :
       Fire([Ev("property") EXCEPT !.name = d[1], !.value = d[2], !.inParens = d[3],
                                   !.line = d[4], !.col = d[5]],
            IF d[3] THEN stack
            ELSE [stack EXCEPT ![Len(stack)].empty = FALSE,
                               ![Len(stack)].declared = @ \cup {<<LowText(d[1]), d[2]>>},
                               ![Len(stack)].previous = LowText(d[1])],
            FALSE)

\* a declaration of the open block, where the parser also notes whether the
\* names declared directly in the block stand in alphabetical order
OnOrderedDeclaration(decls) ==
  /\ stack # <<>>
  /\ \E d \in decls :
       Fire([Ev("property") EXCEPT !.name = d[1], !.value = d[2], !.inParens = d[3],
                                   !.line = d[4], !.col = d[5]],
            IF d[3] THEN stack
            ELSE [stack EXCEPT ![Len(stack)].empty = FALSE,
                               ![Len(stack)].declared = @ \cup {<<LowText(d[1]), d[2]>>},
                               ![Len(stack)].outOfOrder =
                                  @ \/ LessUnits(CodeUnits(LowText(d[1])), CodeUnits(Top.previous)),
                               ![Len(stack)].previous = LowText(d[1])],
            FALSE)

\* an @font-face block opens at the top level of the stylesheet
OnStartFontFace ==
  /\ stack = <<>>
  /\ fontFaces < MaxFontFaces
  /\ Fire(Ev("startfontface"), Append(stack, Block("fontface", Absent, Absent, FALSE)), FALSE)

OnEndFontFace ==
  /\ stack # <<>>
  /\ Top.kind = "fontface"
  /\ Fire(Ev("endfontface"), Pop, FALSE)

\* a declaration of the open block with its position and its !important flag
OnPropertyAt(decls, positions) ==
  /\ stack # <<>>
  /\ \E d \in decls, p \in positions :
       /\ d[4] => important < MaxImportant
       /\ getPropName(d[1]) = "float" /\ LowText(d[2]) # "none" => floats < MaxFloats
       /\ ~d[3] => lastRule.isNull \/ lastRule.propCount < MaxProps
       /\ Fire([Ev("property") EXCEPT !.name = d[1], !.value = d[2], !.inParens = d[3],
                                       !.important = d[4], !.line = p[1], !.col = p[2]],
               IF Top.kind = "rule" THEN [stack EXCEPT ![Len(stack)].empty = FALSE] ELSE stack,
               FALSE)

\* a declaration of the open block (the counters of the closures are capped)
OnProperty(decls) ==
  /\ stack # <<>>
  /\ \E d \in decls :
       /\ getPropName(d[1]) = "float" /\ LowText(d[2]) # "none" => floats < MaxFloats
       /\ ~d[3] => lastRule.isNull \/ lastRule.propCount < MaxProps
       /\ Fire([Ev("property") EXCEPT !.name = d[1], !.value = d[2], !.inParens = d[3]],
               \* only endrule tells whether its block was empty
               IF Top.kind = "rule" THEN [stack EXCEPT ![Len(stack)].empty = FALSE] ELSE stack,
               FALSE)

OnEndStylesheet ==
  /\ stack = <<>>
  /\ Fire(Ev("endstylesheet"), stack, TRUE)

\* parse throws by itself; the exception may carry a line and a column
ParserThrows(positions) ==
  /\ pc = "parsing"
  /\ \E ex \in {Pos(Absent, Absent)} \cup {Pos(p[1], p[2]) : p \in positions} :
       Finish(CatchFatal(Closures, ex), TRUE)
  /\ UNCHANGED <<src, rulesetArg, ruleset, allow, ignore>>

\* parse returns
ParseReturns ==
  /\ pc = "parsing"
  /\ ended
  /\ Finish(Closures, FALSE)
  /\ UNCHANGED <<src, rulesetArg, ruleset, allow, ignore>>

\* the user opens a tab, which becomes the active one
UserOpensTab(pages) ==
  /\ opening.at = "idle"
  /\ Len(tabs) < MaxTabs
  /\ \E p \in pages, incognito \in BOOLEAN :
       tabs' = [i \in 1..Len(tabs) |-> [tabs[i] EXCEPT !.active = FALSE]]
               \o <<Tab(Len(tabs) + 1, p[1], p[2], incognito, TRUE)>>
  /\ UNCHANGED <<linter, opening, api, utils>>

\* the user switches to another tab
UserSwitchesTab ==
  /\ opening.at = "idle"
  /\ \E k \in 1..Len(tabs) :
       /\ ~tabs[k].active
       /\ tabs' = [i \in 1..Len(tabs) |-> [tabs[i] EXCEPT !.active = (i = k)]]
  /\ UNCHANGED <<linter, opening, api, utils>>

\* openURL({url, newWindow, newTab}) up to its first await; windows tells
\* whether browser.windows exists, supported is openerTabIdSupported
openURL(urls) ==
  /\ opening.at = "idle"
  /\ \E u \in urls, newTab \in BOOLEAN, newWindow \in BOOLEAN,
        env \in {<<TRUE, TRUE>>, <<TRUE, FALSE>>, <<FALSE, FALSE>>} :
       opening' = [at |-> "query",
                   url |-> IF IncludesSlashes(u) THEN u ELSE getURL(u),
                   newTab |-> newTab, newWindow |-> newWindow,
                   windows |-> env[1], supported |-> env[2]]
  /\ UNCHANGED <<linter, tabs, api, utils>>

\* openURL from the tab of the query to the await of getActiveTab
openURLQueried ==
  LET url == opening.url
      found == IF opening.newTab THEN [isNull |-> TRUE, tab |-> UrlOnly]
               ELSE QueryUrl(tabs, url)
      call == IF ~found.isNull
              THEN activateTab(found.tab,
                               IF url # Showing(found.tab) /\ IncludesHash(url)
                               THEN url ELSE NoUrl)
              ELSE CreateWindow(url)
  IN /\ opening.at = "query"
     /\ IF ~found.isNull \/ (opening.newWindow /\ opening.windows)
        THEN /\ api' = Append(api, call)
             /\ tabs' = Apply(tabs, call)
             /\ opening' = [opening EXCEPT !.at = "done"]
        ELSE /\ opening' = [opening EXCEPT !.at = "active"]
             /\ UNCHANGED <<tabs, api>>
     /\ UNCHANGED <<linter, utils>>

\* openURL from the active tab to its return
openURLActive ==
  LET active == getActiveTab(tabs)
      tab == IF active.isNull THEN UrlOnly ELSE active.tab
      call == IF isTabReplaceable(tab, opening.url)
              THEN activateTab(tab, opening.url)
              ELSE CreateTab(tab, opening.url, opening.supported)
  IN /\ opening.at = "active"
     /\ api' = Append(api, call)
     /\ tabs' = Apply(tabs, call)
     /\ opening' = [opening EXCEPT !.at = "done"]
     /\ UNCHANGED <<linter, utils>>

\* ------------------------------------------------------- the specifications
\* the positions of a text whose columns play no role
LeftMargin == {<<l, 1>> : l \in Lines}
\* the first line at every column and every line at its first column
Cross == {p \in Lines \X Cols : p[1] = 1 \/ p[2] = 1}

\* every argument that names one of these rules, and the argument left out
ArgsNaming(ids) ==
  {NoArg} \cup {Given(<<[id |-> r, level |-> l]>>) : r \in ids, l \in Levels}

FirstLine == {<<1, 1>>}

ParseError == OnError(LeftMargin)
Import == OnImport(LeftMargin)

\* Spec: rule blocks, the outline-none rule and the failure boundary of verify.
PipelineText == <<"code">>

OutlineDecls ==
  {<<"outline", "none", FALSE>>, <<"outline", "none", TRUE>>, <<"color", "red", FALSE>>}

Verify ==
  /\ pc = "idle"
  /\ \E arg \in ArgsNaming({ID_outline_none}) : VerifyStart(PipelineText, arg)

FirstLineError == OnError(FirstLine)
StartRule == OnStartRule(FirstLine, BOOLEAN)
Declaration == OnProperty(OutlineDecls)
Throws == ParserThrows(FirstLine)

Next ==
  \/ Verify
  \/ FirstLineError
  \/ StartRule
  \/ Declaration
  \/ OnEndRule
  \/ OnEndStylesheet
  \/ Throws
  \/ ParseReturns

Spec == Init /\ [][Next]_vars

\* SpecLevels: the levels of the ruleset argument and of the directives.
LevelTokens == {"nl", "import:2", "ids:1, import:true, errors:0"}

LevelsVerify ==
  /\ pc = "idle"
  /\ \E tokens \in Sources(LevelTokens, MaxTokens), arg \in ArgsNaming({ID_import, ID_errors}) :
       VerifyStart(tokens, arg)

NextLevels ==
  \/ LevelsVerify
  \/ ParseError
  \/ Import
  \/ OnEndStylesheet
  \/ ParseReturns

SpecLevels == Init /\ [][NextLevels]_vars

\* SpecAllow: allow tables against the reports of two rules.
AllowTokens == {"nl", "allow:import", "allow:empty-rules"}

AllowVerify ==
  /\ pc = "idle"
  /\ \E tokens \in Sources(AllowTokens, MaxTokens) : VerifyStart(tokens, NoArg)

AllowStartRule == OnStartRule(LeftMargin, {FALSE})

NextAllow ==
  \/ AllowVerify
  \/ Import
  \/ AllowStartRule
  \/ OnEndRule
  \/ OnEndStylesheet
  \/ ParseReturns

SpecAllow == Init /\ [][NextAllow]_vars

\* SpecIgnore: ignore ranges against reports, parse errors and a rollup.
IgnoreTokens == {"nl", "ignore:start", "ignore:end"}

IgnoreArg == Given(<<[id |-> ID_import, level |-> "1"], [id |-> ID_font_faces, level |-> "1"]>>)

IgnoreVerify ==
  /\ pc = "idle"
  /\ \E tokens \in Sources(IgnoreTokens, MaxTokens) : VerifyStart(tokens, IgnoreArg)

NextIgnore ==
  \/ IgnoreVerify
  \/ ParseError
  \/ Import
  \/ OnStartFontFace
  \/ OnEndFontFace
  \/ OnEndStylesheet
  \/ ParseReturns

SpecIgnore == Init /\ [][NextIgnore]_vars

\* SpecSort: positional messages that differ in line or in column, and two rollups.
SortArg == Given(<<[id |-> ID_font_faces, level |-> "1"], [id |-> ID_floats, level |-> "2"]>>)

FloatDecls ==
  {<<"float", "left", FALSE>>, <<"FLOAT", "left", FALSE>>, <<"float", "none", FALSE>>,
   <<"float", "NONE", FALSE>>, <<"color", "red", FALSE>>}

SortVerify ==
  /\ pc = "idle"
  /\ VerifyStart(<<>>, SortArg)

SortParseError == OnError(Cross)
SortDeclaration == OnProperty(FloatDecls)
SortThrows == ParserThrows(FirstLine)

NextSort ==
  \/ SortVerify
  \/ SortParseError
  \/ OnStartFontFace
  \/ SortDeclaration
  \/ OnEndFontFace
  \/ OnEndStylesheet
  \/ SortThrows
  \/ ParseReturns

SpecSort == Init /\ [][NextSort]_vars

\* SpecScan: the probe and the directive scan of verify over many texts.
ScanTokens ==
  {"nl", "code", "comment", "ignore:start", "ignore:end", "CSSLint ignore:start",
   "allow:import", "import:2", "ids:1, import:true, errors:0"}

ScanArgs == {NoArg, Given(<<[id |-> ID_import, level |-> "1"]>>)}

ScanVerify ==
  /\ pc = "idle"
  /\ \E tokens \in Sources(ScanTokens, MaxScanTokens), arg \in ScanArgs : VerifyStart(tokens, arg)

NextScan ==
  \/ ScanVerify
  \/ OnEndStylesheet
  \/ ParseReturns

SpecScan == Init /\ [][NextScan]_vars

\* SpecRanges: texts of ignore:start and ignore:end comments over several lines.
RangesVerify ==
  /\ pc = "idle"
  /\ \E tokens \in Sources(IgnoreTokens, MaxRangeTokens) : VerifyStart(tokens, IgnoreArg)

NextRanges ==
  \/ RangesVerify
  \/ OnEndStylesheet
  \/ ParseReturns

SpecRanges == Init /\ [][NextRanges]_vars

\* SpecCalls: verify called again and again, with @import reports in every call.
CallTokens == {"ignore:start", "allow:import"}

\* no argument, an object of the caller, and that object as a call leaves it
CallArgs ==
  {NoArg,
   Given(<<[id |-> ID_import, level |-> "1"]>>),
   Given(<<[id |-> ID_import, level |-> "1"], [id |-> ID_errors, level |-> "2"]>>)}

\* the texts of the calls: each token alone, and no directive at all
CallTexts == {<<>>} \cup {<<t>> : t \in CallTokens} \cup {<<t, "nl">> : t \in CallTokens}

CallsVerify ==
  /\ pc = "idle"
  /\ \E tokens \in CallTexts, arg \in CallArgs : VerifyStart(tokens, arg)

CallsVerifyAgain ==
  /\ pc = "done"
  /\ \E tokens \in CallTexts, arg \in CallArgs : VerifyAgain(tokens, arg)

NextCalls ==
  \/ CallsVerify
  \/ CallsVerifyAgain
  \/ Import
  \/ OnEndStylesheet
  \/ ParseReturns

SpecCalls == Init /\ [][NextCalls]_vars

\* SpecImportant: !important declarations on a filtered first line and below it.
ImportantTexts ==
  {<<>>, <<"ignore:start", "ignore:end", "nl">>, <<"allow:important", "nl">>}

ImportantArg == Given(<<[id |-> ID_important, level |-> "1"]>>)

ImportantDecls == {<<"color", "red", FALSE, TRUE>>, <<"color", "red", FALSE, FALSE>>}

ImportantVerify ==
  /\ pc = "idle"
  /\ \E tokens \in ImportantTexts : VerifyStart(tokens, ImportantArg)

ImportantStartRule == OnStartRule(FirstLine, {FALSE})
ImportantDeclaration == OnPropertyAt(ImportantDecls, LeftMargin)

NextImportant ==
  \/ ImportantVerify
  \/ ImportantStartRule
  \/ ImportantDeclaration
  \/ OnEndRule
  \/ OnEndStylesheet
  \/ ParseReturns

SpecImportant == Init /\ [][NextImportant]_vars

\* SpecIds: rule blocks whose selectors hold ID modifiers in several parts.
\* a#x, #a .b, .a, #a #b, #a#b and .a #b
IdsSelectorParts ==
  {<<Part(<<"id">>)>>,
   <<Part(<<"id">>), Combinator, Part(<<"class">>)>>,
   <<Part(<<"class">>)>>,
   <<Part(<<"id">>), Combinator, Part(<<"id">>)>>,
   <<Part(<<"id", "id">>)>>,
   <<Part(<<"class">>), Combinator, Part(<<"id">>)>>}

\* the selectors of one rule block, each at its own column of one line
IdsSelectorLists ==
  {<<[line |-> l, col |-> 1, parts |-> a]>> : l \in Lines, a \in IdsSelectorParts}
  \cup {<<[line |-> l, col |-> 1, parts |-> a], [line |-> l, col |-> 2, parts |-> b]>> :
          l \in Lines, a \in IdsSelectorParts, b \in IdsSelectorParts}

IdsArg == Given(<<[id |-> ID_ids, level |-> "1"]>>)

IdsVerify ==
  /\ pc = "idle"
  /\ VerifyStart(<<>>, IdsArg)

IdsStartRule == OnStartRuleWith(IdsSelectorLists)

NextIds ==
  \/ IdsVerify
  \/ IdsStartRule
  \/ OnEndRule
  \/ OnEndStylesheet
  \/ ParseReturns

SpecIds == Init /\ [][NextIds]_vars

\* SpecShorthand: blocks that declare the longhands of grid-area, grid-column
\* and grid-row; the first line of the second text is inside an ignore range.
ShorthandTexts == {<<>>, <<"ignore:start", "ignore:end", "nl">>}

ShorthandArg == Given(<<[id |-> ID_shorthand, level |-> "1"]>>)

\* grid-column-* on the first line, grid-row-* on the second
ShorthandDecls ==
  {<<"grid-column-start", "1", FALSE, 1, 1>>, <<"grid-column-end", "2", FALSE, 1, 1>>,
   <<"grid-row-start", "1", FALSE, 2, 1>>, <<"grid-row-end", "2", FALSE, 2, 1>>,
   <<"grid-row-end", "2", TRUE, 2, 1>>}

ShorthandVerify ==
  /\ pc = "idle"
  /\ \E tokens \in ShorthandTexts : VerifyStart(tokens, ShorthandArg)

\* rule blocks at the top level of the stylesheet
ShorthandStartRule == OnStartBlock({"rule"}, FirstLine, 1)
ShorthandDeclaration == OnDeclaration(ShorthandDecls)

NextShorthand ==
  \/ ShorthandVerify
  \/ ShorthandStartRule
  \/ ShorthandDeclaration
  \/ OnEndBlock
  \/ OnEndStylesheet
  \/ ParseReturns

SpecShorthand == Init /\ [][NextShorthand]_vars

\* SpecDuplicates: blocks that declare color twice and more, margin in between.
DuplicatesArg == Given(<<[id |-> ID_duplicate_properties, level |-> "1"]>>)

DuplicateDecls ==
  {<<"color", "red", FALSE, 1, 1>>, <<"color", "blue", FALSE, 1, 1>>,
   <<"margin", "0", FALSE, 1, 1>>, <<"color", "red", TRUE, 1, 1>>}

DuplicatesVerify ==
  /\ pc = "idle"
  /\ VerifyStart(<<>>, DuplicatesArg)

DuplicatesStartRule == OnStartBlock({"rule"}, FirstLine, 1)
DuplicatesDeclaration == OnDeclaration(DuplicateDecls)

NextDuplicates ==
  \/ DuplicatesVerify
  \/ DuplicatesStartRule
  \/ DuplicatesDeclaration
  \/ OnEndBlock
  \/ OnEndStylesheet
  \/ ParseReturns

SpecDuplicates == Init /\ [][NextDuplicates]_vars

\* SpecBoxModel: blocks that declare a size next to padding, border, box-sizing.
BoxModelArg == Given(<<[id |-> ID_box_model, level |-> "1"]>>)

BoxDecls ==
  {<<"width", "100px", FALSE, 1, 1>>, <<"height", "100px", FALSE, 1, 1>>,
   <<"padding", "10px", FALSE, 1, 1>>, <<"padding", "0", FALSE, 1, 1>>,
   <<"padding", "0 10px", FALSE, 1, 1>>, <<"border-left", "1px solid", FALSE, 1, 1>>,
   <<"box-sizing", "border-box", FALSE, 1, 1>>, <<"padding", "10px", TRUE, 1, 1>>}

BoxModelVerify ==
  /\ pc = "idle"
  /\ VerifyStart(<<>>, BoxModelArg)

BoxModelStartRule == OnStartBlock({"rule"}, FirstLine, 1)
BoxModelDeclaration == OnDeclaration(BoxDecls)

NextBoxModel ==
  \/ BoxModelVerify
  \/ BoxModelStartRule
  \/ BoxModelDeclaration
  \/ OnEndBlock
  \/ OnEndStylesheet
  \/ ParseReturns

SpecBoxModel == Init /\ [][NextBoxModel]_vars

\* SpecGrammar: one parser error whose message holds grammar names.
GrammarArg == Given(<<[id |-> ID_errors, level |-> "1"]>>)

Pieces ==
  {<<"<">>, <<"i", "n", "t">>, <<">">>, <<"-">>, <<"r", "e", "l", "-">>,
   <<"h", "s", "l">>, <<"e">>, <<" ">>}

RECURSIVE PiecedTexts(_)
PiecedTexts(n) ==
  IF n = 0 THEN {<<>>}
  ELSE PiecedTexts(n - 1) \cup {t \o p : t \in PiecedTexts(n - 1), p \in Pieces}

GrammarVerify ==
  /\ pc = "idle"
  /\ VerifyStart(<<>>, GrammarArg)

\* the run meets one error
GrammarError ==
  /\ messages = <<>>
  /\ OnErrorWith(FirstLine, PiecedTexts(MaxPieces))

NextGrammar ==
  \/ GrammarVerify
  \/ GrammarError
  \/ OnEndStylesheet
  \/ ParseReturns

SpecGrammar == Init /\ [][NextGrammar]_vars

\* SpecTabs: the user's tabs and one call of openURL.
\* the URL and the pending URL of the tabs the user opens
TabPages ==
  {<<Url("chrome", "://", "newtab/", ""), NoUrl>>,
   <<Url("about", ":", "blank", ""), NoUrl>>,
   <<Url("https", "://", "example.com/", ""), NoUrl>>,
   <<Url("about", ":", "blank", ""), Url("about", ":", "newtab", "")>>}

OpenUrls ==
  {Url("https", "://", "example.com/", ""), Url("https", "://", "example.com/", "#top"),
   Url("", "", "manage.html", ""), Url("chrome", "://", "extensions/", "")}

TabsUserOpens == UserOpensTab(TabPages)
TabsOpenURL == openURL(OpenUrls)

NextTabs ==
  \/ TabsUserOpens
  \/ UserSwitchesTab
  \/ TabsOpenURL
  \/ openURLQueried
  \/ openURLActive

SpecTabs == Init /\ [][NextTabs]_vars

\* SpecLines: directives on one line, on several lines and over several lines.
LineTokens ==
  {"nl", "allow:import", "allow:import on three lines", "ignore:start", "ignore:end"}

LinesVerify ==
  /\ pc = "idle"
  /\ \E tokens \in Sources(LineTokens, MaxLineTokens) : VerifyStart(tokens, NoArg)

NextLines ==
  \/ LinesVerify
  \/ OnEndStylesheet
  \/ ParseReturns

SpecLines == Init /\ [][NextLines]_vars

\* SpecBlocks: blocks inside blocks with longhands declared at every level.
BlockKinds == {"rule", "keyframes", "keyframerule"}

BlockDecls ==
  {<<"grid-column-start", "1", FALSE, 1, 1>>, <<"grid-column-end", "2", FALSE, 1, 1>>,
   <<"color", "red", FALSE, 1, 1>>, <<"grid-row-start", "1", TRUE, 1, 1>>}

BlocksVerify ==
  /\ pc = "idle"
  /\ VerifyStart(<<>>, ShorthandArg)

BlocksStart == OnStartBlock(BlockKinds, FirstLine, MaxNesting)

\* @keyframes holds keyframe rules and no declarations of its own
BlocksDeclaration ==
  /\ stack # <<>>
  /\ Top.kind # "keyframes"
  /\ OnDeclaration(BlockDecls)

NextBlocks ==
  \/ BlocksVerify
  \/ BlocksStart
  \/ BlocksDeclaration
  \/ OnEndBlock
  \/ OnEndStylesheet
  \/ ParseReturns

SpecBlocks == Init /\ [][NextBlocks]_vars

\* SpecCategories: blocks of every kind the parser announces.
CategoryKinds ==
  {"container", "fontface", "keyframes", "keyframerule", "media", "page", "pagemargin",
   "rule", "supports", "viewport"}

CategoryDecls == {<<"grid-column-start", "1", FALSE, 1, 1>>}

CategoriesVerify ==
  /\ pc = "idle"
  /\ VerifyStart(<<>>, ShorthandArg)

CategoriesStart == OnStartBlock(CategoryKinds, FirstLine, MaxNesting)

CategoriesDeclaration ==
  /\ stack # <<>>
  /\ Top.kind # "keyframes"
  /\ OnDeclaration(CategoryDecls)

NextCategories ==
  \/ CategoriesVerify
  \/ CategoriesStart
  \/ CategoriesDeclaration
  \/ OnEndBlock
  \/ OnEndStylesheet
  \/ ParseReturns

SpecCategories == Init /\ [][NextCategories]_vars

\* ================================================================ properties
Range(seq) == {seq[i] : i \in 1..Len(seq)}
RollupsOf(msgs) == SelectSeq(msgs, LAMBDA m : m.rollup)
Count(msgs, m) == Cardinality({i \in 1..Len(msgs) : msgs[i] = m})
SameMessages(a, b) ==
  /\ Len(a) = Len(b)
  /\ \A m \in Range(a) \cup Range(b) : Count(a, m) = Count(b, m)

\* the message a Reporter call appended: messages[c.pushed] is the message of call c
Appended(c) ==
  /\ c.pushed \in 1..Len(messages)
  /\ messages[c.pushed].rule = c.rule
  /\ messages[c.pushed].line = c.line
  /\ messages[c.pushed].col = c.col
  /\ messages[c.pushed].rollup = (c.op = "rollupWarn")

\* no message of report() for this rule on this line
NoMessageFor(id, line) ==
  \A i \in 1..Len(messages) : ~(messages[i].rule = id /\ messages[i].line = line)

InSomeRange(line) == \E r \in Range(ignore) : r[1] <= line /\ line <= r[2]
AllowListed(line, id) == line \in DOMAIN allow /\ id \in allow[line]

\* C1: in the messages verify returns, every non-rollup message precedes every
\* rollup message, the non-rollup messages are in non-decreasing (line, column)
\* order, and the rollup messages are in the order in which they were emitted.
C1_ReturnedOrder ==
  pc = "done" =>
    /\ \A i, j \in 1..Len(report) : i < j /\ report[i].rollup => report[j].rollup
    /\ \A i, j \in 1..Len(report) :
         i < j /\ ~report[i].rollup /\ ~report[j].rollup =>
           \/ report[i].line < report[j].line
           \/ report[i].line = report[j].line /\ report[i].col <= report[j].col
    /\ RollupsOf(report) = RollupsOf(messages)
    /\ SameMessages(report, messages)

\* two rollups were emitted, two messages of one line were pushed with the later
\* column first, and a positional message was pushed behind a rollup
C1_Witness ==
  /\ pc = "done"
  /\ Len(RollupsOf(report)) = 2
  /\ \E i, j \in 1..Len(messages) :
       /\ i < j /\ ~messages[i].rollup /\ ~messages[j].rollup
       /\ messages[i].line = messages[j].line /\ messages[i].col > messages[j].col
  /\ \E i, j \in 1..Len(messages) : i < j /\ messages[i].rollup /\ ~messages[j].rollup

\* C2: a report() call whose line is inside an ignore range appends nothing;
\* error() calls of the errors rule and rollups are appended whatever the ranges
\* are, and a report() call whose line is outside every range (and is not
\* allow-listed) is appended.
C2_IgnoreRanges ==
  \A n \in 1..Len(calls) :
    LET c == calls[n]
    IN /\ c.op = "report" /\ ~c.isNull /\ InSomeRange(c.line) =>
            c.pushed = 0 /\ NoMessageFor(c.rule, c.line)
       /\ c.op \in {"error", "rollupWarn"} => Appended(c)
       /\ c.op = "report" /\ ~c.isNull /\ ~InSomeRange(c.line) /\ ~AllowListed(c.line, c.rule) =>
            Appended(c)

\* a report on the last line of a range was dropped while the messages hold a
\* parse error of a line of the range and a report of a line outside every range
C2_Witness ==
  /\ \E n \in 1..Len(calls), r \in Range(ignore) :
       calls[n].op = "report" /\ calls[n].line = r[2] /\ calls[n].pushed = 0
  /\ \E i \in 1..Len(messages) : messages[i].rule = ID_errors /\ InSomeRange(messages[i].line)
  /\ \E i \in 1..Len(messages) : messages[i].rule = ID_import /\ ~InSomeRange(messages[i].line)

\* C3: an allow entry for rule R on line L drops the report() calls for R on L
\* and no others: a report for another rule on L, or for R on another line, is
\* appended (no ignore range covering it).
C3_AllowExactly ==
  \A n \in 1..Len(calls) :
    LET c == calls[n]
    IN c.op = "report" /\ ~c.isNull =>
         /\ AllowListed(c.line, c.rule) => c.pushed = 0 /\ NoMessageFor(c.rule, c.line)
         /\ ~AllowListed(c.line, c.rule) /\ ~InSomeRange(c.line) => Appended(c)

\* import is allowed on a line, its report there was dropped, and the messages
\* hold the report of another rule for that line and one of import for another line
C3_Witness ==
  \E n \in 1..Len(calls) :
    /\ calls[n].op = "report" /\ calls[n].rule = ID_import /\ calls[n].pushed = 0
    /\ AllowListed(calls[n].line, ID_import)
    /\ \E i \in 1..Len(messages) :
         messages[i].rule = ID_empty_rules /\ messages[i].line = calls[n].line
    /\ \E i \in 1..Len(messages) :
         messages[i].rule = ID_import /\ messages[i].line # calls[n].line


\* the (rule, level) pairs a default-form directive lists, as its author reads it
ListedLevels(token) ==
  CASE token = "import:2" -> <<[id |-> ID_import, level |-> "2"]>>
    [] token = "ids:1, import:true, errors:0" ->
         <<[id |-> <<"i", "d", "s">>, level |-> "1"], [id |-> ID_import, level |-> "2"],
           [id |-> ID_errors, level |-> "0"]>>
    [] OTHER -> <<>>

RECURSIVE SetAll(_, _)
SetAll(rs, pairs) ==
  IF pairs = <<>> THEN rs ELSE SetAll(RsSet(rs, Head(pairs).id, Head(pairs).level), Tail(pairs))

RECURSIVE ListedRuleset(_, _)
ListedRuleset(rs, tokens) ==
  IF tokens = <<>> THEN rs
  ELSE ListedRuleset(SetAll(rs, ListedLevels(Head(tokens))), Tail(tokens))

BaseRuleset == IF rulesetArg.given THEN rulesetArg.obj ELSE getRuleSet

\* C4: every rule id listed by a default-form directive, the first one included,
\* has its mapped level in the effective ruleset (a later directive winning over
\* an earlier one, and errors forced to 2), and the directives create or change
\* no other key.
C4_DefaultFormSetsEveryListedRule ==
  pc # "idle" =>
    LET expected == ForceErrors(ListedRuleset(BaseRuleset, src))
    IN /\ RsKeys(ruleset) = RsKeys(expected)
       /\ \A id \in RsKeys(expected) : RsGet(ruleset, id) = RsGet(expected, id)

\* the messages of report(): those of a registered rule other than errors
ReportMessages ==
  {i \in 1..Len(messages) :
     ~messages[i].rollup /\ messages[i].rule \in RuleIds \ {ID_errors}}

Dormant ==
  \A id \in RuleIds :
    RsGet(ruleset, id) \in {"0", "false"} =>
      /\ id \notin Range(listeners)
      /\ \A i \in 1..Len(messages) : messages[i].rule # id

\* C5 as claimed: a message of report() for a rule of level 2 or true is an
\* error, for a rule of level 1 a warning, and a rule of level 0 or false is
\* never initialised and has no message.
C5_LevelTrueIsError ==
  /\ \A i \in ReportMessages :
       LET level == RsGet(ruleset, messages[i].rule)
       IN /\ level \in {"2", "true"} => messages[i].type = "error"
          /\ level = "1" => messages[i].type = "warning"
  /\ Dormant

\* C5 as amended: a message of report() is an error exactly for a rule whose
\* level is the number 2; for every other truthy level (1, true) it is a
\* warning; a rule of level 0 or false is never initialised and has no message.
C5_LevelDecidesType ==
  /\ \A i \in ReportMessages :
       LET level == RsGet(ruleset, messages[i].rule)
       IN /\ level = "2" => messages[i].type = "error"
          /\ level \in {"1", "true"} => messages[i].type = "warning"
          /\ level \in {"1", "2", "true"}
  /\ Dormant

\* the caller gave import the level true and its report became a warning
C5_Witness ==
  /\ rulesetArg.given
  /\ RsGet(rulesetArg.obj, ID_import) = "true"
  /\ RsGet(ruleset, ID_import) = "true"
  /\ \E i \in ReportMessages : messages[i].rule = ID_import /\ messages[i].type = "warning"

\* C6: in every verify call the errors rule has level 2 and is initialised,
\* whatever the ruleset argument and the directives say about errors, and every
\* error event of the parser yields a message of type error.
C6_ErrorsForced ==
  pc # "idle" =>
    /\ RsGet(ruleset, ID_errors) = "2"
    /\ ID_errors \in Range(listeners)
    /\ \A n \in 1..Len(calls) :
         calls[n].op = "error" /\ calls[n].rule = ID_errors =>
           Appended(calls[n]) /\ messages[calls[n].pushed].type = "error"

\* the argument and a directive both switch errors off, and a parse error was reported
C6_Witness ==
  /\ rulesetArg.given
  /\ RsGet(rulesetArg.obj, ID_errors) \in {"0", "false"}
  /\ \E k \in 1..Len(src) : src[k] = "ids:1, import:true, errors:0"
  /\ \E n \in 1..Len(calls) :
       calls[n].op = "error" /\ calls[n].rule = ID_errors /\ calls[n].pushed > 0

IsFatal(m) == m.message.text = "Fatal error, cannot continue!"

\* C7: when parse throws, verify returns all the same; the messages pushed
\* before are kept, one message of type error carrying the failure is added,
\* and the returned list holds exactly these messages.
C7_FatalIsOneMessage ==
  [][pc = "parsing" /\ threw' =>
       /\ pc' = "done"
       /\ Len(messages') = Len(messages) + 1
       /\ SubSeq(messages', 1, Len(messages)) = messages
       /\ IsFatal(messages'[Len(messages')])
       /\ messages'[Len(messages')].type = "error"
       /\ Cardinality({i \in 1..Len(report') : IsFatal(report'[i])}) = 1
       /\ SameMessages(report', messages')]_vars

\* parse threw after two messages had been pushed
C7_Witness ==
  /\ threw
  /\ pc = "done"
  /\ Len(messages) = 3
  /\ IsFatal(messages[3])

\* C8: Reporter.report never raises, whatever position and rule it is given.
C8_ReportNeverRaises ==
  \A n \in 1..Len(calls) : calls[n].op = "report" => ~calls[n].raised

\* C9: a finding of outline-none is never fatal: its end handler appends one
\* warning through the Reporter, the parse goes on, and no fatal error results.
C9_OutlineNoneFindingIsAWarning ==
  \A n \in 1..Len(calls) :
    calls[n].rule = ID_outline_none =>
      /\ Appended(calls[n])
      /\ messages[calls[n].pushed].type = "warning"
      /\ pc = "parsing"
      /\ ~threw
      /\ \A i \in 1..Len(messages) : ~IsFatal(messages[i])

\* C10: skipping the scan is a pure optimisation: the ruleset, the allow table
\* and the ignore ranges verify works with are those of the case-insensitive
\* scan run over the whole text.
C10_SkipIsPureOptimisation ==
  pc # "idle" =>
    LET full == applyEmbeddedOverrides(TextOf(src), BaseRuleset, 0)
    IN /\ ruleset = ForceErrors(full.ruleset)
       /\ allow = full.allow
       /\ ignore = full.ignore

\* the number of lines of a text written with these tokens
LineCount(tokens) == 1 + Cardinality({i \in 1..Len(tokens) : tokens[i] = "nl"})

\* the line on which token k starts
LineOf(tokens, k) == 1 + Cardinality({i \in 1..(k - 1) : tokens[i] = "nl"})

\* the line of the ignore:start that is still open behind the first k tokens
\* (0 when no range is open): a start opens a range unless one is open, an end
\* closes the open range
RECURSIVE OpenStart(_, _)
OpenStart(tokens, k) ==
  IF k = 0 THEN 0
  ELSE LET before == OpenStart(tokens, k - 1)
       IN CASE tokens[k] = "ignore:start" -> IF before # 0 THEN before ELSE LineOf(tokens, k)
            [] tokens[k] = "ignore:end" -> 0
            [] OTHER -> before

\* C11: a range that ignore:start opened and no ignore:end closed reaches the
\* last line of the text: no report on a line from its start to the last line
\* of the text is appended.
C11_UnclosedRangeReachesLastLine ==
  LET start == OpenStart(src, Len(src))
  IN start # 0 =>
       \A n \in 1..Len(calls) :
         calls[n].op = "report" /\ start <= calls[n].line /\ calls[n].line <= LineCount(src)
           => calls[n].pushed = 0

\* the rule ids an allow token lists
AllowIds(token) ==
  CASE token = "allow:import" -> {ID_import}
    [] token = "allow:empty-rules" -> {ID_empty_rules}
    [] OTHER -> {}

\* C12: the allow table entry of a line holds every rule id listed by every
\* allow directive that starts on that line; two allow comments of one line
\* accumulate.
C12_AllowAccumulates ==
  pc # "idle" =>
    \A k \in 1..Len(src) :
      AllowIds(src[k]) # {} =>
        /\ LineOf(src, k) \in DOMAIN allow
        /\ AllowIds(src[k]) \subseteq allow[LineOf(src, k)]

\* the ranges the ignore:end comments among the first k tokens close: an end
\* closes the range that is open, from the line of the start that opened it
RECURSIVE ClosedRanges(_, _)
ClosedRanges(tokens, k) ==
  IF k = 0 THEN <<>>
  ELSE IF tokens[k] = "ignore:end" /\ OpenStart(tokens, k - 1) # 0
  THEN Append(ClosedRanges(tokens, k - 1), <<OpenStart(tokens, k - 1), LineOf(tokens, k)>>)
  ELSE ClosedRanges(tokens, k - 1)

\* C13: ignore:start is absorbed while a range is open: it opens no second
\* range and does not move the start, so the range an ignore:end appends
\* begins at the line of the first ignore:start since the range before.
C13_StartIsIdempotent ==
  pc # "idle" =>
    LET closed == ClosedRanges(src, Len(src))
    IN /\ Len(closed) <= Len(ignore)
       /\ SubSeq(ignore, 1, Len(closed)) = closed

\* starts on lines 1 and 2, an end on line 3: one range, from line 1
C13_Witness ==
  /\ src = <<"ignore:start", "nl", "ignore:start", "nl", "ignore:end">>
  /\ pc = "done"
  /\ ignore = <<<<1, 3>>>>

\* tokens without the k-th
Without(tokens, k) == SubSeq(tokens, 1, k - 1) \o SubSeq(tokens, k + 1, Len(tokens))

\* the ignore:end comments of a text that find no range open
OrphanEnds(tokens) ==
  {k \in 1..Len(tokens) : tokens[k] = "ignore:end" /\ OpenStart(tokens, k - 1) = 0}

\* C14: an ignore:end with no range open changes nothing: the ranges of the text
\* are those of the text without that comment, ranges closed later and the
\* range closed at the end of the scan included.
C14_OrphanEndIsNoOp ==
  pc # "idle" =>
    \A k \in OrphanEnds(src) :
      ignore = Overrides(TextOf(Without(src, k)), rulesetArg.obj).ignore

\* an end on line 1 with nothing open, then a start on line 2 closed on line 3
C14_Witness ==
  /\ src = <<"ignore:end", "nl", "ignore:start", "nl", "ignore:end">>
  /\ pc = "done"
  /\ ignore = <<<<2, 3>>>>

\* C15: the reuseCache flag of a call is true exactly when the (ruleset, allow,
\* ignore) the call works with equals that of the call before, or when there
\* was no call before.
C15_ReuseCacheIffSameOverrides ==
  [][pc' = "parsing" /\ pc # "parsing" =>
       (reuseCache' <=> (pc = "idle" \/ <<ruleset', allow', ignore'>> = <<ruleset, allow, ignore>>))]_vars

\* C16: verify leaves the ruleset object of its caller as it was.
C16_CallerRulesetUntouched ==
  pc = "done" /\ rulesetArg.given => callerRuleset = rulesetArg.obj

\* what a first call of verify works with for this text and this argument
FirstCallOverrides(tokens, arg) ==
  LET ovr == Overrides(TextOf(tokens), IF arg.given THEN arg.obj ELSE getRuleSet)
  IN <<ForceErrors(ovr.ruleset), ovr.allow, ovr.ignore>>

C18_StatsReturned ==
  [][pc = "parsing" /\ pc' = "done" =>
       /\ "stats" \in DOMAIN Returned'
       /\ Returned'.stats = stats]_vars

\* is the declaration a float whose value is not none (names and keywords of
\* CSS are case-insensitive)
IsCountedFloat(d) == d[1] \in {"float", "FLOAT"} /\ d[2] \notin {"none", "NONE"}

\* the rollup messages of the floats rule
FloatRollups(msgs) ==
  {i \in 1..Len(msgs) : msgs[i].rollup /\ msgs[i].rule = ID_floats}

\* C19: the floats rule counts every float declaration whose value is not none
\* and no other declaration; at the end of the stylesheet it emits no rollup
\* for a count of 9 or less, and for 10 or more exactly one rollup warning
\* that cites the count.
C19_FloatsExactAtThreshold ==
  [][/\ \A d \in FloatDecls :
          OnProperty({d}) => floats' = floats + (IF IsCountedFloat(d) THEN 1 ELSE 0)
     /\ pc = "parsing" /\ ~ended /\ ended' =>
          /\ floats <= 9 => FloatRollups(messages') = {}
          /\ floats >= 10 =>
               /\ Cardinality(FloatRollups(messages')) = 1
               /\ \A i \in FloatRollups(messages') :
                    /\ messages'[i].type = "warning"
                    /\ messages'[i].message = Text("Too many floats", floats)]_vars

\* the stylesheet ended with ten counted floats and one rollup of the rule
C19_Witness ==
  /\ pc = "parsing"
  /\ ended
  /\ stats = [n \in {"floats"} |-> 10]
  /\ Cardinality(FloatRollups(messages)) = 1

\* the rollup messages of the important rule
ImportantRollups(msgs) ==
  {i \in 1..Len(msgs) : msgs[i].rollup /\ msgs[i].rule = ID_important}

\* the warnings of the important rule for single declarations
ImportantWarnings(msgs) ==
  {i \in 1..Len(msgs) : ~msgs[i].rollup /\ msgs[i].rule = ID_important}

\* C20: every !important declaration is counted and reported once, its warning
\* being appended unless its line is allow-listed for the rule or inside an
\* ignore range; a declaration without !important is neither counted nor
\* reported; at the end of the stylesheet there is exactly one rollup warning
\* if the count, suppressed declarations included, is 10 or more, and none
\* otherwise.
C20_ImportantCountsEveryDeclaration ==
  [][/\ \A d \in ImportantDecls, p \in LeftMargin :
          OnPropertyAt({d}, {p}) =>
            IF d[4]
            THEN /\ important' = important + 1
                 /\ Len(calls') = 1
                 /\ calls'[1].op = "report" /\ calls'[1].rule = ID_important
                 /\ calls'[1].line = p[1]
                 /\ IF InSomeRange(p[1]) \/ AllowListed(p[1], ID_important)
                    THEN messages' = messages
                    ELSE /\ Len(messages') = Len(messages) + 1
                         /\ SubSeq(messages', 1, Len(messages)) = messages
                         /\ messages'[Len(messages')].type = "warning"
                         /\ messages'[Len(messages')].rule = ID_important
                         /\ messages'[Len(messages')].line = p[1]
            ELSE important' = important /\ calls' = <<>> /\ messages' = messages
     /\ pc = "parsing" /\ ~ended /\ ended' =>
          /\ ImportantWarnings(messages') = ImportantWarnings(messages)
          /\ important <= 9 => ImportantRollups(messages') = {}
          /\ important >= 10 =>
               /\ Cardinality(ImportantRollups(messages')) = 1
               /\ \A i \in ImportantRollups(messages') : messages'[i].type = "warning"]_vars

\* ten declarations were counted and one rollup emitted, while the warning of
\* at least eight of them was suppressed
C20_Witness ==
  /\ pc = "parsing"
  /\ ended
  /\ stats = [n \in {"important"} |-> 10]
  /\ Cardinality(ImportantRollups(messages)) = 1
  /\ Cardinality(ImportantWarnings(messages)) = 2

RECURSIVE SumOver(_)
SumOver(ns) == IF ns = <<>> THEN 0 ELSE Head(ns) + SumOver(Tail(ns))

\* the ID modifiers of a selector, summed over all its parts
TotalIds(sel) == SumOver([i \in 1..Len(sel.parts) |-> IdModifiers(sel.parts[i])])

\* the messages of the ids rule at a position, behind the first n messages
IdsMessagesAt(msgs, n, line, col) ==
  {i \in (n + 1)..Len(msgs) :
     msgs[i].rule = ID_ids /\ msgs[i].line = line /\ msgs[i].col = col}

\* C21: when a rule block starts, the ids rule appends one message for every
\* selector that holds an ID modifier in any of its parts, worded for the
\* number of ID modifiers of all the parts of that selector, and no message
\* for a selector without ID modifiers.
C21_IdsCountsEveryPart ==
  [][\A sels \in IdsSelectorLists :
       OnStartRuleWith({sels}) =>
         \A k \in 1..Len(sels) :
           LET at == IdsMessagesAt(messages', Len(messages), sels[k].line, sels[k].col)
           IN IF TotalIds(sels[k]) = 0 THEN at = {}
              ELSE /\ Cardinality(at) = 1
                   /\ \A i \in at : messages'[i].message = Text("Id in selector", TotalIds(sels[k]))]_vars

\* the messages behind the first n that the shorthand rule worded for sh
ShorthandMessages(msgs, n, sh) ==
  {i \in (n + 1)..Len(msgs) : msgs[i].rule = ID_shorthand /\ msgs[i].message = Text(sh, 0)}

\* the line on which a name is declared in the blocks of SpecShorthand
DeclaredLine(name) == (CHOOSE d \in ShorthandDecls : d[1] = name)[4]

\* C22: when a block ends that declared every longhand of a shorthand of the
\* table outside parentheses, the shorthand rule reports one warning per
\* longhand that names this shorthand (a report on an ignored line is not
\* appended); when a longhand is missing, no warning names the shorthand.
C22_EveryShorthandOfTheTable ==
  [][stack # <<>> /\ OnEndBlock =>
       \A sh \in DOMAIN shorthands :
         LET names == {d[1] : d \in Top.declared}
             longhands == {shorthands[sh][k] : k \in 1..Len(shorthands[sh])}
             told == ShorthandMessages(messages', Len(messages), sh)
         IN IF longhands \subseteq names
            THEN /\ Cardinality(told)
                      = Cardinality({l \in longhands : ~InSomeRange(DeclaredLine(l))})
                 /\ \A i \in told : messages'[i].type = "warning"
            ELSE told = {}]_vars

\* the latest event made duplicate-properties append one message with this text
DuplicateTold(text) ==
  /\ Len(calls) = 1
  /\ calls[1].op = "report" /\ calls[1].rule = ID_duplicate_properties
  /\ calls[1].pushed > 0
  /\ messages[calls[1].pushed].message = Text(text, 0)

\* C23: a declaration outside parentheses whose name and value equal those of
\* an earlier declaration of its block is reported as "Duplicate"; one whose
\* name was declared in the block with other values only is reported as
\* "Ungrouped duplicate" unless the declaration right before it in the block
\* has the same name, and then it is not reported.
C23_ExactDuplicatesAlwaysReported ==
  [][\A d \in {e \in DuplicateDecls : ~e[3]} :
       stack # <<>> /\ OnDeclaration({d}) =>
         LET names == {e[1] : e \in Top.declared}
         IN /\ <<d[1], d[2]>> \in Top.declared => DuplicateTold("Duplicate")'
            /\ d[1] \in names /\ <<d[1], d[2]>> \notin Top.declared =>
                 IF Top.previous = d[1] THEN calls' = <<>>
                 ELSE DuplicateTold("Ungrouped duplicate")']_vars

\* a block declared a non-zero padding or border property of the list
DeclaresNonZero(declared, list) ==
  \E d \in declared : Includes(list, d[1]) /\ d[2] \notin {"0", "none"}

\* the messages behind the first n that box-model appended
BoxModelMessages(msgs, n) == {i \in (n + 1)..Len(msgs) : msgs[i].rule = ID_box_model}

\* C24: at the end of a block that declares width (height) and a non-zero
\* padding or border property of the same axis and no box-sizing, box-model
\* appends a warning; at the end of a block that declares box-sizing it
\* appends nothing.
C24_BoxModelPaddingAndBorder ==
  [][stack # <<>> /\ OnEndBlock =>
       LET names == {d[1] : d \in Top.declared}
           told == BoxModelMessages(messages', Len(messages))
       IN IF "box-sizing" \in names THEN told = {}
          ELSE (\/ "width" \in names /\ DeclaresNonZero(Top.declared, sizeProps.width)
                \/ "height" \in names /\ DeclaresNonZero(Top.declared, sizeProps.height))
               => /\ told # {}
                  /\ \A i \in told : messages'[i].type = "warning"]_vars

\* the word w stands in chars at index i
StandsAt(chars, w, i) ==
  i + Len(w) - 1 <= Len(chars) /\ SubSeq(chars, i, i + Len(w) - 1) = w

Occurrences(chars, w) == {i \in 1..Len(chars) : StandsAt(chars, w, i)}

\* the length of the abbreviation matched at index i together with the '-' or
\* '<' before it, 0 when none is matched there
AbbreviationAt(chars, i) ==
  IF chars[i] \notin {"-", "<"} THEN 0
  ELSE IF /\ \E w \in {<<"i", "n", "t">>, <<"l", "e", "n">>, <<"n", "u", "m">>, <<"p", "c", "t">>} : StandsAt(chars, w, i + 1)
          /\ i + 4 <= Len(chars)
          /\ ~IsWord(chars[i + 4])
       THEN 4
       ELSE IF /\ StandsAt(chars, <<"r", "e", "l", "-">>, i + 1)
               /\ i + 8 <= Len(chars)
               /\ \A k \in (i + 5)..(i + 7) : IsWord(chars[k])
               /\ ~IsWord(chars[i + 8])
            THEN 8
            ELSE 0

\* the matches that are replaced: a match is skipped when an earlier replaced
\* match reaches over its first character
Replaced(chars) ==
  LET M == {i \in 1..Len(chars) : AbbreviationAt(chars, i) > 0}
  IN CHOOSE S \in SUBSET M :
       \A i \in M : i \in S <=> ~\E j \in S : j < i /\ i < j + AbbreviationAt(chars, j)

\* by how much the replacement of the match at j is longer than the match
Growth(chars, j) ==
  LET n == AbbreviationAt(chars, j)
  IN 1 + Len(AbbrGet(SubSeq(chars, j + 1, j + n - 1))) - n

RECURSIVE GrowthBefore(_, _, _)
GrowthBefore(chars, S, p) ==
  IF S = {} THEN 0
  ELSE LET j == CHOOSE x \in S : TRUE
       IN (IF j < p THEN Growth(chars, j) ELSE 0) + GrowthBefore(chars, S \ {j}, p)

\* every character of old outside the replaced matches stands unchanged in new,
\* moved by what the replacements before it added, and new holds nothing behind
\* them (nothing is matched in a text without '<')
OutsideUnchanged(old, new) ==
  LET S == IF "<" \in {old[k] : k \in 1..Len(old)} THEN Replaced(old) ELSE {}
      Outside == {p \in 1..Len(old) : ~\E j \in S : j <= p /\ p < j + AbbreviationAt(old, j)}
  IN /\ Len(new) = Len(old) + GrowthBefore(old, S, Len(old) + 1)
     /\ \A p \in Outside : new[p + GrowthBefore(old, S, p)] = old[p]

\* C25: the text of every returned message is the text the rule reported with
\* the grammar abbreviations expanded: each '<int>' has become '<integer>', the
\* characters outside the matched abbreviations are unchanged, and a text
\* without '<' is returned as it was.
C25_ExpandsAbbreviationsOnly ==
  pc = "done" =>
    /\ Len(report) = Len(messages)
    /\ \A i \in 1..Len(report) :
         LET old == SortMessages(messages)[i].message.grammar
             new == report[i].message.grammar
         IN /\ report[i].message.text = SortMessages(messages)[i].message.text
            /\ Occurrences(new, <<"<", "i", "n", "t", ">">>) = {}
            /\ Cardinality(Occurrences(new, <<"<", "i", "n", "t", "e", "g", "e", "r", ">">>))
                 = Cardinality(Occurrences(old, <<"<", "i", "n", "t", ">">>)) + Cardinality(Occurrences(old, <<"<", "i", "n", "t", "e", "g", "e", "r", ">">>))
            /\ OutsideUnchanged(old, new)
            /\ "<" \notin {old[k] : k \in 1..Len(old)} => new = old

\* a returned message whose text held '<int>' and a '-int' besides
C25_Witness ==
  /\ pc = "done"
  /\ \E i \in 1..Len(report) :
       /\ Occurrences(messages[i].message.grammar, <<"<", "i", "n", "t", ">">>) # {}
       /\ Occurrences(report[i].message.grammar, <<"<", "i", "n", "t", "e", "g", "e", "r", ">">>) # {}

\* C26: when openURL has found no tab with the URL and opens no window, it
\* reuses the active tab if that tab shows a New Tab page or about:blank, unless
\* the tab is incognito and the new URL starts with 'chrome'; in every other
\* case it creates a tab.
C26_ReusesEmptyActiveTab ==
  [][opening.at = "active" /\ opening'.at = "done" =>
       LET active == {i \in 1..Len(tabs) : tabs[i].active}
           Empty(t) == \/ Includes(URLS_emptyTab, Showing(t))
                       \/ Showing(t) = Url("about", ":", "blank", "")
           reuse == {i \in active :
                       /\ Empty(tabs[i])
                       /\ ~(tabs[i].incognito /\ StartsWithChrome(opening.url))}
           made == api'[Len(api')]
       IN /\ Len(api') = Len(api) + 1
          /\ IF reuse # {}
             THEN /\ made.api = "tabs.update"
                  /\ \E i \in reuse : made.id = tabs[i].id
                  /\ made.url = opening.url
                  /\ Len(tabs') = Len(tabs)
             ELSE /\ made.api = "tabs.create"
                  /\ made.url = opening.url
                  /\ Len(tabs') = Len(tabs) + 1]_vars

\* 1 plus the newline characters of the text before the k-th token
LineOfToken(k) ==
  LET before == RenderAll(SubSeq(src, 1, k - 1))
  IN 1 + Cardinality({i \in 1..Len(before) : before[i] = "\n"})

LinesOfTokens(tokens) == {LineOfToken(k) : k \in {j \in 1..Len(src) : src[j] \in tokens}}

\* C27: the keys of the allow table are the lines on which the allow comments
\* start, and the bounds of the ignore ranges are lines on which ignore comments
\* start: 1 plus the newline characters before the comment's opening, however
\* many directives stand before it on the same or on earlier lines.
C27_DirectiveLineIsLineOfComment ==
  pc # "idle" =>
    LET allows == LinesOfTokens({"allow:import", "allow:import on three lines"})
        starts == LinesOfTokens({"ignore:start"})
        ends == LinesOfTokens({"ignore:end"})
        directives == LinesOfTokens(LineTokens \ {"nl"})
    IN /\ DOMAIN allow = allows
       /\ starts # {} => ignore # <<>> /\ \A l \in starts : ignore[1][1] <= l
       /\ \A i \in 1..Len(ignore) :
            /\ ignore[i][1] \in starts
            /\ \/ ignore[i][2] \in ends
               \/ i = Len(ignore) /\ ignore[i][2] \in directives /\ \A l \in directives : l <= ignore[i][2]

\* an allow comment that runs over three lines, and behind it on its last line
\* two more allow comments
C27_Witness ==
  /\ pc # "idle"
  /\ src = <<"allow:import on three lines", "allow:import", "allow:import">>
  /\ DOMAIN allow = {1, 3}

\* a block of one of the categories registerRuleEvents listens to
Subscribed(block) == \E i \in 1..Len(RuleEventCategories) : RuleEventCategories[i] = block.kind

\* the names a props accumulator holds
Accumulated(props) ==
  UNION {{props.entries[j].events[k].name : k \in 1..Len(props.entries[j].events)} :
           j \in 1..Len(props.entries)}

\* the longhands declared directly in a block
DirectLonghands(block) ==
  {d[1] : d \in {x \in block.declared : shorthandsFor(x[1]) # Undefined}}

\* the stack is as deep as there are open blocks, and the accumulator holds the
\* longhands declared directly in the innermost one
Isolated(blocks, scope) ==
  /\ Len(scope.stack) = Cardinality({i \in 1..Len(blocks) : Subscribed(blocks[i])})
  /\ blocks # <<>> /\ Subscribed(blocks[Len(blocks)])
       => Accumulated(scope.props) = DirectLonghands(blocks[Len(blocks)])

ListenersWanted(categories, handlers) ==
  {<<"start" \o e, "start">> : e \in {c \in categories : handlers.start}}
  \cup {<<"end" \o e, "end">> : e \in {c \in categories : handlers.end}}
  \cup {<<"property", "property">> : e \in {c \in {"property"} : handlers.property}}

\* registerRuleEvents attaches the wanted listeners, each of them once, and the
\* start and end handlers of the shorthand rule run for the blocks of the
\* categories and for no other block
SubscribesCategories(categories) ==
     /\ \A handlers \in [start : BOOLEAN, property : BOOLEAN, end : BOOLEAN] :
          LET attached == registerRuleEvents(<<>>, handlers)
          IN /\ {attached[i] : i \in 1..Len(attached)} = ListenersWanted(categories, handlers)
             /\ Len(attached) = Cardinality(ListenersWanted(categories, handlers))
     /\ pc = "parsing" /\ pc' = "parsing" /\ Len(stack') = Len(stack) + 1
          => (Len(shorthand'.stack) = Len(shorthand.stack) + 1
                <=> stack'[Len(stack')].kind \in categories)
     /\ pc = "parsing" /\ pc' = "parsing" /\ Len(stack') = Len(stack) - 1
          => (Len(shorthand'.stack) = Len(shorthand.stack) - 1
                <=> Top.kind \in categories)

\* C29: registerRuleEvents subscribes the start and the end handler to the
\* start and end events of nine categories of blocks, the keyframe rule (not
\* the @keyframes block) among them, and the property handler once; a handler
\* that is left out is subscribed to nothing.
C29_SubscribesNineCategories ==
  [][SubscribesCategories({"rule", "media", "page", "pagemargin", "fontface", "keyframerule",
                           "supports", "container", "viewport"})]_vars

\* C29 as stated: the nine categories with the @keyframes block among them.
C29_SubscribesKeyframes ==
  [][SubscribesCategories({"rule", "media", "page", "pagemargin", "fontface", "keyframes",
                           "supports", "container", "viewport"})]_vars

\* a keyframe rule is open inside @keyframes and only its start handler has run
C29_Witness ==
  /\ pc = "parsing"
  /\ Len(stack) = 2
  /\ stack[1].kind = "keyframes"
  /\ stack[2].kind = "keyframerule"
  /\ Len(shorthand.stack) = 1

\* the lines of the text verify was called with
SourceLines == split(TextOf(src), "\n")

\* C30: every returned message with a position carries as evidence the text of
\* the line of the source that its line number names.
C30_EvidenceIsSourceLine ==
  pc = "done" =>
    \A i \in 1..Len(report) :
      ~report[i].rollup =>
        /\ report[i].evidence # Undefined
        /\ report[i].line \in 1..Len(SourceLines)
        /\ report[i].evidence = SourceLines[report[i].line]

\* C31: every range of IgnoreRanges has 1 <= start <= end, the ranges stand in
\* scan order with each start not smaller than the end of the range before, and
\* at most one range is open at any point of the scan: the ranges are those
\* closed by an ignore:end plus at most the one left open at the end.
C31_RangesWellFormed ==
  pc # "idle" =>
    /\ \A i \in 1..Len(ignore) :
         /\ 1 <= ignore[i][1]
         /\ ignore[i][1] <= ignore[i][2]
         /\ i > 1 => ignore[i - 1][2] <= ignore[i][1]
    /\ Len(ignore) = Len(ClosedRanges(src, Len(src)))
                       + (IF OpenStart(src, Len(src)) # 0 THEN 1 ELSE 0)

\* a range closed on line 2 and a second one opened on that line, left open
C31_Witness ==
  /\ src = <<"ignore:start", "nl", "ignore:end", "ignore:start">>
  /\ pc = "done"
  /\ ignore = <<<<1, 2>>, <<2, 2>>>>

\* SpecNested: duplicate-properties over rule blocks that open inside one another.
NestedDecls ==
  {<<"color", "red", FALSE, 1, 1>>, <<"color", "blue", FALSE, 1, 1>>,
   <<"margin", "0", FALSE, 1, 1>>}

NestedStart == OnStartBlock({"rule"}, FirstLine, MaxNesting)
NestedDeclaration == OnDeclaration(NestedDecls)

NextNested ==
  \/ DuplicatesVerify
  \/ NestedStart
  \/ NestedDeclaration
  \/ OnEndBlock
  \/ OnEndStylesheet
  \/ ParseReturns

SpecNested == Init /\ [][NextNested]_vars

\* C32: the adjacency test of duplicate-properties is per block: a declaration
\* whose name was declared directly in its block with other values only goes
\* unreported exactly when the declaration made right before it directly in
\* that block has the same name, whatever a nested block that has ended declared.
C32_AdjacencyIsPerBlock ==
  [][\A d \in NestedDecls :
       stack # <<>> /\ OnDeclaration({d}) =>
         LET names == {e[1] : e \in Top.declared}
         IN d[1] \in names /\ <<d[1], d[2]>> \notin Top.declared =>
              (calls' = <<>> <=> Top.previous = d[1])]_vars

\* SpecTextIndent: text-indent and direction declared in rule blocks that open
\* inside one another.
TextIndentArg == Given(<<[id |-> ID_text_indent, level |-> "1"]>>)

TextIndentDecls ==
  {<<"text-indent", "-100px", FALSE, 1, 1>>, <<"text-indent", "-99px", FALSE, 1, 1>>,
   <<"direction", "ltr", FALSE, 1, 1>>, <<"direction", "LTR", FALSE, 1, 1>>,
   <<"direction", "rtl", FALSE, 1, 1>>, <<"text-indent", "-100px", TRUE, 1, 1>>}

TextIndentVerify ==
  /\ pc = "idle"
  /\ VerifyStart(<<>>, TextIndentArg)

TextIndentStart == OnStartBlock({"rule"}, FirstLine, MaxNesting)
TextIndentDeclaration == OnDeclaration(TextIndentDecls)

NextTextIndent ==
  \/ TextIndentVerify
  \/ TextIndentStart
  \/ TextIndentDeclaration
  \/ OnEndBlock
  \/ OnEndStylesheet
  \/ ParseReturns

SpecTextIndent == Init /\ [][NextTextIndent]_vars

\* a block declared directly, outside parentheses, a text-indent below -99
DeclaresNegativeIndent(block) ==
  \E d \in block.declared : d[1] = "text-indent" /\ CSSValue(d[2]).parts[1].number < -99

\* a block declared directly, outside parentheses, direction: ltr
DeclaresLtr(block) ==
  \E d \in block.declared :
    d[1] = "direction" /\ toLowerCase(CSSValue(d[2]).chars) = <<"l", "t", "r">>

\* C33: text-indent reports an offending declaration exactly once, for any
\* nesting of blocks: the end of a block appends one text-indent message when
\* the block itself declares a text-indent below -99 and no direction: ltr,
\* whatever blocks opened inside it, and none otherwise, so the end of an
\* enclosing block never repeats the report of a nested block.
C33_TextIndentOncePerBlock ==
  [][stack # <<>> /\ OnEndBlock =>
       IF DeclaresNegativeIndent(Top) /\ ~DeclaresLtr(Top)
       THEN /\ Len(calls') = 1
            /\ calls'[1].rule = ID_text_indent
            /\ calls'[1].pushed > 0
       ELSE calls' = <<>>]_vars

\* SpecDocument: @import, @charset and @namespace inside and outside
\* @-moz-document sections, which may open inside one another.
GlobalsArg == Given(<<[id |-> ID_globals_in_document, level |-> "1"]>>)

MaxSections == 3     \* @-moz-document sections opened in one stylesheet

DocumentVerify ==
  /\ pc = "idle"
  /\ VerifyStart(<<>>, GlobalsArg)

DocumentStart ==
  /\ globalsInDocument.index + Len(stack) < MaxSections
  /\ OnStartBlock({"document"}, FirstLine, MaxNesting)

DocumentGlobal == OnGlobal({"import", "charset", "namespace"}, FirstLine)

NextDocument ==
  \/ DocumentVerify
  \/ DocumentStart
  \/ DocumentGlobal
  \/ OnEndBlock
  \/ OnEndStylesheet
  \/ ParseReturns

SpecDocument == Init /\ [][NextDocument]_vars

\* C34: globals-in-document reports an @import, @charset or @namespace exactly
\* when it stands inside an @-moz-document section other than the first one of
\* the stylesheet: never at top level, never inside the first section (also
\* after a section nested in the first one has ended), always in a later one.
C34_ReportsInLaterSectionsOnly ==
  [][\A k \in {"import", "charset", "namespace"} :
       OnGlobal({k}, FirstLine) =>
         IF stack # <<>> /\ sections > 1
         THEN /\ Len(calls') = 1
              /\ calls'[1].rule = ID_globals_in_document
              /\ calls'[1].pushed > 0
         ELSE calls' = <<>>]_vars

\* SpecHeadings: rule blocks whose selectors end in h1, h3, H3, h3:hover, h6 or div.
HeadingsArg == Given(<<[id |-> ID_unique_headings, level |-> "1"]>>)

HeadingParts ==
  {<<Elem(<<"h", "1">>, <<>>)>>,
   <<Elem(<<"h", "3">>, <<>>)>>,
   <<Elem(<<"H", "3">>, <<"class">>)>>,
   <<Elem(<<"h", "3">>, <<"pseudo">>)>>,
   <<Elem(<<"h", "6">>, <<>>)>>,
   <<Elem(<<"d", "i", "v">>, <<>>)>>,
   <<Elem(<<"d", "i", "v">>, <<>>), Combinator, Elem(<<"h", "6">>, <<>>)>>}

HeadingSelectorLists ==
  {<<[line |-> 1, col |-> 1, parts |-> a]>> : a \in HeadingParts}
  \cup {<<[line |-> 1, col |-> 1, parts |-> a], [line |-> 1, col |-> 2, parts |-> b]>> :
          a \in HeadingParts, b \in HeadingParts}

HeadingsVerify ==
  /\ pc = "idle"
  /\ VerifyStart(<<>>, HeadingsArg)

HeadingsStartRule == OnStartRuleWith(HeadingSelectorLists)

NextHeadings ==
  \/ HeadingsVerify
  \/ HeadingsStartRule
  \/ OnEndRule
  \/ OnEndStylesheet
  \/ ParseReturns

SpecHeadings == Init /\ [][NextHeadings]_vars

\* the entries '<count> H<N>s' of the levels N defined more than once, by level
HeadingStatsByLevel(counts) ==
  LET kept == SelectSeq([n \in 1..6 |-> n], LAMBDA n : counts[n] > 1)
  IN [i \in 1..Len(kept) |-> NumberText(counts[kept[i]]) \o " H" \o NumberText(kept[i]) \o "s"]

\* C35: the rollup message of unique-headings names the right levels: it holds
\* the entry '<count> H<N>s' for every level N (1..6) defined more than once,
\* with that N, and no entry for a level defined at most once; when no level
\* was defined more than once there is no rollup.
C35_RollupNamesTheLevels ==
  [][OnEndStylesheet =>
       LET expected == HeadingStatsByLevel(headings)
       IN IF expected # <<>>
          THEN /\ Len(calls') = 1
               /\ calls'[1].op = "rollupWarn" /\ calls'[1].rule = ID_unique_headings
               /\ messages'[calls'[1].pushed].message = Text(JoinComma(expected), 0)
          ELSE calls' = <<>>]_vars

\* SpecOrder: declarations in and out of alphabetical order in rule blocks
\* that open inside one another.
OrderArg == Given(<<[id |-> ID_order_alphabetical, level |-> "1"]>>)

OrderDecls ==
  {<<"border", "0", FALSE, 1, 1>>, <<"color", "red", FALSE, 1, 1>>,
   <<"margin", "0", FALSE, 1, 1>>, <<"border", "0", TRUE, 1, 1>>}

OrderVerify ==
  /\ pc = "idle"
  /\ VerifyStart(<<>>, OrderArg)

OrderStart == OnStartBlock({"rule"}, FirstLine, MaxNesting)
OrderDeclaration == OnOrderedDeclaration(OrderDecls)

NextOrder ==
  \/ OrderVerify
  \/ OrderStart
  \/ OrderDeclaration
  \/ OnEndBlock
  \/ OnEndStylesheet
  \/ ParseReturns

SpecOrder == Init /\ [][NextOrder]_vars

\* the latest event made order-alphabetical append one message
OrderTold ==
  /\ Len(calls) = 1
  /\ calls[1].op = "report" /\ calls[1].rule = ID_order_alphabetical
  /\ calls[1].pushed > 0

\* last and failed of the closure are those of the innermost open block: failed
\* tells whether a name was declared in it after a greater one, and until then
\* last is the name declared last in it
OrderStateOfTop ==
  pc = "parsing" /\ stack # <<>> =>
    /\ Len(orderAlphabetical.stack) = Len(stack)
    /\ orderAlphabetical.failed = Top.outOfOrder
    /\ ~Top.outOfOrder => orderAlphabetical.last = Top.previous

\* C36: order-alphabetical reports at most one message per block, on the first
\* declaration whose name is smaller than the one declared before it in the
\* block, and the stack restores its state: after a nested block ends, last
\* and failed are those the enclosing block had before the nested one started.
C36_OrderOncePerBlock ==
  [][/\ OrderStateOfTop'
     /\ \A d \in OrderDecls :
          stack # <<>> /\ OnOrderedDeclaration({d}) =>
            IF ~d[3] /\ ~Top.outOfOrder /\ LessUnits(CodeUnits(d[1]), CodeUnits(Top.previous))
            THEN OrderTold'
            ELSE calls' = <<>>]_vars

\* a nested block that was reported has ended; the enclosing block, in order
\* so far, goes on from its own last name with failed unset
C36_Witness ==
  /\ pc = "parsing"
  /\ Len(stack) = 1
  /\ Top.nestedEnded
  /\ Top.previous = "color" /\ ~Top.outOfOrder
  /\ Top.declared = {<<"border", "0">>, <<"color", "red">>}
  /\ orderAlphabetical = [stack |-> <<[last |-> "", failed |-> FALSE]>>,
                          last |-> "color", failed |-> FALSE]
  /\ Len(messages) = 1
  /\ calls = <<>>

\* the abbreviation matched at index j is a 'rel-xxx' with no entry in the table
UnknownAbbreviation(chars, j) ==
  /\ AbbreviationAt(chars, j) = 8
  /\ \A k \in 1..Len(ABBR_MAP) : ABBR_MAP[k].abbr # SubSeq(chars, j + 1, j + 7)

\* C37: a token that matches the abbreviation pattern but has no entry in the
\* lookup table is left unchanged: a message text with a '<' whose only match
\* is such a 'rel-xxx' token is returned as it was.
C37_UnknownAbbreviationUnchanged ==
  pc = "done" =>
    \A i \in 1..Len(report) :
      LET old == SortMessages(messages)[i].message.grammar
          new == report[i].message.grammar
      IN \A j \in 1..Len(old) :
           /\ "<" \in {old[k] : k \in 1..Len(old)}
           /\ Replaced(old) = {j}
           /\ UnknownAbbreviation(old, j)
           => new = old

\* SpecTimers: calls of debounce and debounce.unregister for two functions and
\* one call of download, whose timeouts share the timers of the browser.
MaxEvents == 4       \* calls of debounce and unregister and runs that are followed

DebounceFns == {"f", "g"}
DebounceArgs == {1, 2}

Browser == [timers |-> timers, timeouts |-> timeouts, nextTimer |-> nextTimer]

Debounces(d) ==
  /\ timers' = d.timers
  /\ timeouts' = d.timeouts
  /\ nextTimer' = d.nextTimer

\* a call debounce(fn, delay, args)
debounce(fns, argss) ==
  /\ Len(trace) < MaxEvents
  /\ \E fn \in fns, args \in argss :
       /\ Debounces(Debounced(Browser, fn, args))
       /\ trace' = Append(trace, [op |-> "debounce", fn |-> fn, args |-> args])
  /\ UNCHANGED <<linter, tabs, opening, api, request, comparison>>

\* a timeout of debounce fires: debounce.run(fn, ...args)
debounceRun ==
  /\ Len(trace) < MaxEvents
  /\ \E t \in timeouts :
       /\ t.callback = "debounce.run"
       /\ timeouts' = timeouts \ {t}
       /\ timers' = TimersDelete(timers, t.fn)
       /\ trace' = Append(trace, [op |-> "run", fn |-> t.fn, args |-> t.args])
  /\ UNCHANGED <<linter, tabs, opening, api, request, nextTimer, comparison>>

\* a call debounce.unregister(fn)
debounceUnregister(fns) ==
  /\ Len(trace) < MaxEvents
  /\ \E fn \in fns :
       /\ timeouts' = clearTimeout(timeouts, TimersGet(timers, fn))
       /\ timers' = TimersDelete(timers, fn)
       /\ trace' = Append(trace, [op |-> "unregister", fn |-> fn, args |-> 0])
  /\ UNCHANGED <<linter, tabs, opening, api, request, nextTimer, comparison>>

Transfer == [request |-> request, timeouts |-> timeouts, nextTimer |-> nextTimer]

Transferred(st) ==
  /\ request' = st.request
  /\ timeouts' = st.timeouts
  /\ nextTimer' = st.nextTimer
  /\ UNCHANGED <<linter, tabs, opening, api, timers, trace, comparison>>

\* a call of download up to xhr.send(body): the connection timer is scheduled
\* and open() fires readystatechange with readyState 1
download(loadTimeouts) ==
  /\ request = NoRequest
  /\ \E loadTimeout \in loadTimeouts :
       Transferred(OnReadyStateChange(
         [request |-> [NoRequest EXCEPT !.readyState = 1, !.sent = TRUE,
                                        !.onreadystatechange = TRUE, !.timer = nextTimer,
                                        !.loadTimeout = loadTimeout, !.promise = "pending"],
          timeouts |-> timeouts \cup {Timeout(nextTimer, "onTimeout", "", 0)},
          nextTimer |-> nextTimer + 1]))

\* the headers, and then the first data, arrive: readyState 2, then 3
XhrProgress ==
  /\ request.sent /\ request.readyState \in {1, 2}
  /\ Transferred(OnReadyStateChange([Transfer EXCEPT !.request.readyState = @ + 1]))

\* the response is complete: readystatechange, load and loadend in one task
XhrLoads(statuses) ==
  /\ request.sent /\ request.readyState \in {2, 3}
  /\ \E statusOk \in statuses :
       Transferred(OnLoadEnd(OnLoad(OnReadyStateChange(
         [Transfer EXCEPT !.request.readyState = 4, !.request.sent = FALSE]), statusOk)))

\* the request fails: readystatechange, error and loadend in one task
XhrFails ==
  /\ request.sent /\ request.readyState \in 1..3
  /\ Transferred(OnLoadEnd(OnXhrError(OnReadyStateChange(
       [Transfer EXCEPT !.request.readyState = 4, !.request.sent = FALSE]))))

\* a timeout of download fires
TimeoutFires ==
  \E t \in timeouts :
    /\ t.callback = "onTimeout"
    /\ Transferred(OnTimeout([Transfer EXCEPT !.timeouts = timeouts \ {t}]))

TimersDebounce == debounce(DebounceFns, DebounceArgs)
TimersUnregister == debounceUnregister(DebounceFns)
TimersDownload == download(BOOLEAN)
TimersLoads == XhrLoads(BOOLEAN)

NextTimers ==
  \/ TimersDebounce
  \/ debounceRun
  \/ TimersUnregister
  \/ TimersDownload
  \/ XhrProgress
  \/ TimersLoads
  \/ XhrFails
  \/ TimeoutFires

SpecTimers == Init /\ [][NextTimers]_vars

\* the events of the trace about fn, in order
EventsOf(fn) == SelectSeq(trace, LAMBDA e : e.fn = fn)

\* the timeouts that will run fn
PendingFor(fn) == {t \in timeouts : t.callback = "debounce.run" /\ t.fn = fn}

\* C38: debounce keeps at most one timeout per function, the one recorded in
\* debounce.timers: a call made while one is pending cancels it, so fn runs
\* once per burst with the arguments of the last call; fn does not run after
\* unregister(fn) unless debounce is called again, and after fn has run
\* debounce.timers has no entry for fn.
C38_OneTimeoutPerFunction ==
  \A fn \in DebounceFns :
    LET es == EventsOf(fn)
    IN /\ Cardinality(PendingFor(fn)) <= 1
       /\ \A t \in PendingFor(fn) : fn \in DOMAIN timers /\ timers[fn] = t.id
       /\ fn \in DOMAIN timers => \E t \in PendingFor(fn) : t.id = timers[fn]
       /\ \A k \in 1..Len(es) :
            es[k].op = "run" =>
              /\ k > 1
              /\ es[k - 1].op = "debounce"
              /\ es[k - 1].args = es[k].args
       /\ es # <<>> =>
            IF es[Len(es)].op = "debounce"
            THEN \E t \in PendingFor(fn) : t.args = es[Len(es)].args
            ELSE PendingFor(fn) = {} /\ fn \notin DOMAIN timers

\* f was called twice in a burst and has run once, with the arguments of the
\* second call
C38_Witness ==
  /\ EventsOf("f") = <<[op |-> "debounce", fn |-> "f", args |-> 1],
                        [op |-> "debounce", fn |-> "f", args |-> 2],
                        [op |-> "run", fn |-> "f", args |-> 2]>>
  /\ "f" \notin DOMAIN timers

\* the timeouts of download that are scheduled
PendingOnTimeout == {t \in timeouts : t.callback = "onTimeout"}

\* C39: download has at most one timeout pending at any time, the one of its
\* timer variable, and none once loadend was fired; the connection timer is
\* replaced once, at the first readystatechange with headers received; the
\* timeout callback never runs after the request has loaded, failed or ended.
C39_OneTimerUntilLoadEnd ==
  /\ Cardinality(PendingOnTimeout) <= 1
  /\ \A t \in PendingOnTimeout : t.id = request.timer
  /\ request.ended => PendingOnTimeout = {}
  /\ request.replaced <= 1
  /\ request.readyState >= 2 => request.replaced = 1
  /\ ~request.late

\* the headers arrived, the load timer replaced the connection timer, the
\* response was loaded and loadend cleared the load timer
C39_Witness ==
  /\ request.loaded /\ request.ended
  /\ request.loadTimeout /\ request.replaced = 1
  /\ request.timer = 2
  /\ request.promise = "resolved"
  /\ PendingOnTimeout = {}

\* SpecEqual: deepEqual on primitives, arrays and plain objects, in both orders.
MaxItems == 2        \* items of an array handed to deepEqual

Primitives == {Prim("number", "0"), Prim("number", "1"), JsUndefined}

\* the primitives, the empty array and the empty object
FlatValues == Primitives \cup {Arr(<<>>), Obj(<<>>)}

ArraysOf(values) ==
  UNION {[1..n -> values] : n \in 0..MaxItems}

\* the objects with some of the keys '0', 'k' and 'length', in that order
ObjectsOf(values) ==
  LET Opt(key) == {<<>>} \cup {<<Property(key, v)>> : v \in values}
  IN {x \o y \o z : x \in Opt("0"), y \in Opt("k"), z \in Opt("length")}

EqualValues ==
  Primitives \cup {Arr(items) : items \in ArraysOf(FlatValues)}
             \cup {Obj(props) : props \in ObjectsOf(FlatValues)}

InitEqual ==
  /\ Idle
  /\ \E a \in EqualValues, b \in EqualValues, keys \in {{}, {"k"}} :
       comparison = [NoComparison EXCEPT !.a = a, !.b = b, !.ignoredKeys = keys]

\* deepEqual(a, b, ignoredKeys) and deepEqual(b, a, ignoredKeys)
DeepEqualCalls ==
  /\ ~comparison.called
  /\ comparison' = [comparison EXCEPT
                      !.called = TRUE,
                      !.ab = deepEqual(comparison.a, comparison.b, comparison.ignoredKeys),
                      !.ba = deepEqual(comparison.b, comparison.a, comparison.ignoredKeys)]
  /\ UNCHANGED <<linter, tabs, opening, api, timers, timeouts, nextTimer, trace, request>>

NextEqual == DeepEqualCalls

SpecEqual == InitEqual /\ [][NextEqual]_vars

\* C40: deepEqual is symmetric: with the same ignoredKeys, deepEqual(a, b)
\* equals deepEqual(b, a) for primitives, arrays and plain objects, and an
\* array and a plain object are not reported equal in either order.
C40_DeepEqualSymmetric ==
  comparison.called =>
    /\ comparison.ab = comparison.ba
    /\ {comparison.a.kind, comparison.b.kind} = {"array", "object"}
         => ~comparison.ab /\ ~comparison.ba

====
